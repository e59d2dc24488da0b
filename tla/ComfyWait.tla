------------------------------ MODULE ComfyWait ------------------------------
(***************************************************************************)
(* The ComfyUI adapter (backends/comfyui.py) with the part of QueueWorker  *)
(* that drives it: model swap, submit, set_running, wait_for_completion    *)
(* over one websocket that all workers share, polling, stall check and     *)
(* deadline, fetch, cancel and free.  The sidecar runs one prompt at a     *)
(* time; the prompt of job j is called j.                                  *)
(***************************************************************************)
EXTENDS Naturals, Sequences, FiniteSets

CONSTANTS
    Jobs,        \* jobs, each submitted once
    Workers,     \* WORKER_CONCURRENCY tasks over one adapter
    Models,
    ModelOf,     \* the model a job asks for
    StallCheck,  \* COMFY_STALL_TIMEOUT_S is set
    MaxFaults,   \* bound: failing HTTP calls and database writes, websocket
                 \* disconnects and refused connects
    NoJob, NoModel

ASSUME WaitAssumption ==
    /\ ModelOf \in [Jobs -> Models]
    /\ StallCheck \in BOOLEAN
    /\ MaxFaults \in Nat
    /\ NoJob \notin Jobs /\ NoModel \notin Models

VARIABLES
    comfy,      \* sidecar: queue, running prompt, history, loaded models
    ws,         \* _ws and _reader_task: alive, which connection, unread events
    pending,    \* _pending: prompts with a registered future
    resolved,   \* the futures among them that are done
    worker,     \* what each run task is doing
    outcome,    \* how a job ended
    lastModel,  \* _last_model_name
    missed,     \* observer: prompts whose completion event reached no future
    excused,    \* observer: something happened that lets two models be loaded
    faults

vars == <<comfy, ws, pending, resolved, worker, outcome, lastModel, missed,
          excused, faults>>

Verdicts == {"success", "error"}

\* What GET /history/{id} shows of a prompt, as far as _progress_signature,
\* _raise_if_errored and the completed flag tell entries apart.
History == {"none", "partial"} \cup Verdicts

\* Error codes are told apart in Pipelines; here only comfy_timeout is, and the
\* failure of a wait before its try ("unread").
Outcomes == {"none", "completed", "timeout", "failed", "unread"}

\* The program points inside wait_for_completion.
WaitPcs == {"baseline", "connect", "wait", "stalled", "poll"}

Pcs == {"idle", "swap", "submit", "accept", "fetch", "cancel", "interrupt",
        "delete", "free"} \cup WaitPcs

Idle == [pc |-> "idle", job |-> NoJob, reader |-> 0, tries |-> 0, reconnects |-> 0,
         sig |-> "none", why |-> "none"]

TypeOK ==
    /\ comfy \in [queue : Seq(Jobs), running : Jobs \cup {NoJob},
                  history : [Jobs -> History], loaded : SUBSET Models]
    /\ ws \in [up : BOOLEAN, conn : 0..(MaxFaults + 1), events : SUBSET Jobs]
    /\ pending \subseteq Jobs /\ resolved \subseteq Jobs
    /\ worker \in [Workers -> [pc : Pcs, job : Jobs \cup {NoJob},
                               reader : 0..(MaxFaults + 1), tries : 0..2,
                               reconnects : 0..1, sig : History,
                               why : {"none", "timeout", "comfy_error"}]]
    /\ outcome \in [Jobs -> Outcomes]
    /\ lastModel \in Models \cup {NoModel}
    /\ missed \subseteq Jobs /\ excused \in BOOLEAN
    /\ faults \in 0..MaxFaults

Init ==
    /\ comfy = [queue |-> <<>>, running |-> NoJob,
                history |-> [j \in Jobs |-> "none"], loaded |-> {}]
    /\ ws = [up |-> FALSE, conn |-> 0, events |-> {}]
    /\ pending = {} /\ resolved = {}
    /\ worker = [w \in Workers |-> Idle]
    /\ outcome = [j \in Jobs |-> "none"]
    /\ lastModel = NoModel
    /\ missed = {} /\ excused = FALSE
    /\ faults = 0

-----------------------------------------------------------------------------
(* Moves of a worker.                                                      *)

At(w, pc) == worker[w].pc = pc
JobOf(w) == worker[w].job
Entry(w) == comfy.history[JobOf(w)]
Queued == {comfy.queue[i] : i \in DOMAIN comfy.queue}
Goto(w, pc) == worker' = [worker EXCEPT ![w].pc = pc]

\* A move that leaves the locals of the function that ran before behind.
Leaves(w, pc, why) ==
    worker' = [worker EXCEPT ![w] = [Idle EXCEPT !.pc = pc, !.job = JobOf(w), !.why = why]]

\* An HTTP call or a database write that fails.
Fault == faults < MaxFaults /\ faults' = faults + 1
NoFault == UNCHANGED faults

\* Mutant: the future stays registered.
LeaveWaitKeepsFuture(w) == UNCHANGED <<pending, resolved>>

\* The finally of wait_for_completion.
LeaveWait(w) ==
    /\ pending' = pending \ {JobOf(w)}
    /\ resolved' = resolved \ {JobOf(w)}

\* The pipeline of the job is over; only success is remembered as the last model.
End(w, how) ==
    /\ outcome' = [outcome EXCEPT ![JobOf(w)] = how]
    /\ worker' = [worker EXCEPT ![w] = Idle]
    /\ lastModel' = IF how = "completed" THEN ModelOf[JobOf(w)] ELSE lastModel
    /\ excused' = (excused \/ how # "completed")

Quit(w, how) == End(w, how) /\ LeaveWait(w)

GiveUp(w) ==
    /\ Leaves(w, "cancel", "timeout")
    /\ LeaveWait(w)
    /\ UNCHANGED <<outcome, lastModel, excused>>

-----------------------------------------------------------------------------
(* Model swap, submit, set_running.                                        *)

\* Mutant: the unload of the previous model is forgotten.
NeverSwaps(m) == FALSE

\* worker.py: _last_model_name is set and differs.
NeedsSwap(m) == lastModel # NoModel /\ lastModel # m

Take(w, j) ==
    /\ At(w, "idle") /\ outcome[j] = "none"
    /\ \A v \in Workers : JobOf(v) # j
    /\ worker' = [worker EXCEPT
         ![w].pc = IF NeedsSwap(ModelOf[j]) THEN "swap" ELSE "submit", ![w].job = j]
    /\ excused' = (excused \/ \E v \in Workers \ {w} : ~At(v, "idle"))
    /\ UNCHANGED <<comfy, ws, pending, resolved, outcome, lastModel, missed, faults>>

\* POST /free drops every model but the one in use.
freed == [comfy EXCEPT !.loaded =
             IF @ = {} \/ comfy.running = NoJob THEN {} ELSE {ModelOf[comfy.running]}]

\* unload_models and, when vram_free did not rise in time, _has_swap_headroom.
Swap(w) ==
    /\ At(w, "swap")
    /\ UNCHANGED <<ws, pending, resolved, missed>>
    /\ \/ /\ comfy' = freed /\ NoFault                     \* verified
          /\ Goto(w, "submit")
          /\ UNCHANGED <<outcome, lastModel, excused>>
       \/ /\ comfy' \in {comfy, freed} /\ NoFault          \* unverified, headroom
          /\ Goto(w, "submit") /\ excused' = TRUE
          /\ UNCHANGED <<outcome, lastModel>>
       \/ /\ comfy' \in {comfy, freed} /\ NoFault          \* unverified, none
          /\ End(w, "failed")
       \/ /\ UNCHANGED comfy /\ Fault                      \* POST /free raises
          /\ End(w, "failed")

\* POST /prompt: accepted; refused with node_errors; or a transport error, or
\* node_errors beside a prompt_id, after which the sidecar may have the prompt.
Submit(w) ==
    LET queued == [comfy EXCEPT !.queue = Append(@, JobOf(w))] IN
    /\ At(w, "submit")
    /\ UNCHANGED <<ws, pending, resolved, missed>>
    /\ \/ /\ comfy' = queued /\ NoFault
          /\ Goto(w, "accept")
          /\ UNCHANGED <<outcome, lastModel, excused>>
       \/ /\ UNCHANGED comfy /\ NoFault
          /\ End(w, "failed")
       \/ /\ comfy' \in {comfy, queued} /\ Fault
          /\ End(w, "failed")

\* set_running, then the head of wait_for_completion.  A failing set_running
\* cancels the prompt.
Accept(w) ==
    /\ At(w, "accept")
    /\ UNCHANGED <<comfy, ws, resolved, outcome, lastModel, missed, excused>>
    /\ \/ /\ NoFault
          /\ pending' = pending \cup {JobOf(w)}
          /\ worker' = [worker EXCEPT ![w].pc = IF StallCheck THEN "baseline" ELSE "connect",
                                      ![w].tries = 2]
       \/ /\ Fault
          /\ Leaves(w, "cancel", "comfy_error")
          /\ UNCHANGED pending

\* _history_progress_signature before the first connect; None when the GET fails.
\* An answer that is no JSON raises between the registration of the future and
\* the try whose finally would take it back.
Baseline(w) ==
    /\ At(w, "baseline")
    /\ \/ /\ \/ /\ NoFault
                /\ worker' = [worker EXCEPT ![w].pc = "connect", ![w].sig = Entry(w)]
             \/ Fault /\ Goto(w, "connect")
          /\ UNCHANGED <<outcome, lastModel, excused>>
       \/ Fault /\ End(w, "unread")
    /\ UNCHANGED <<comfy, ws, pending, resolved, missed>>

-----------------------------------------------------------------------------
(* wait_for_completion.                                                    *)

\* _poll_until_done starts its own progress clock.
StartsPolling(w) == Leaves(w, "poll", "none")

\* One try of _try_connect: _ensure_ws finds the shared connection alive, opens
\* a new one, or fails.
Connect(w) ==
    /\ At(w, "connect")
    /\ UNCHANGED <<comfy, pending, resolved, outcome, lastModel, missed, excused>>
    /\ \/ /\ ws.up
          /\ worker' = [worker EXCEPT ![w].pc = "wait", ![w].reader = ws.conn]
          /\ UNCHANGED <<ws, faults>>
       \/ /\ ~ws.up
          /\ ws' = [up |-> TRUE, conn |-> ws.conn + 1, events |-> {}]
          /\ worker' = [worker EXCEPT ![w].pc = "wait", ![w].reader = ws.conn + 1]
          /\ UNCHANGED faults
       \/ /\ ~ws.up /\ Fault
          /\ UNCHANGED ws
          /\ IF worker[w].tries > 1
             THEN worker' = [worker EXCEPT ![w].tries = @ - 1]
             ELSE StartsPolling(w)

\* The future is done: the wait returns without looking at the verdict.
Return(w) ==
    /\ At(w, "wait") /\ JobOf(w) \in resolved
    /\ Leaves(w, "fetch", "none") /\ LeaveWait(w)
    /\ UNCHANGED <<comfy, ws, outcome, lastModel, missed, excused, faults>>

ReaderAlive(w) == ws.up /\ ws.conn = worker[w].reader

\* Mutant: reconnects are not limited.
EndlessReconnects(w) ==
    /\ At(w, "wait") /\ JobOf(w) \notin resolved /\ ~ReaderAlive(w)
    /\ worker' = [worker EXCEPT ![w].pc = "connect", ![w].tries = 1, ![w].reconnects = @ + 1]
    /\ UNCHANGED <<comfy, ws, pending, resolved, outcome, lastModel, missed, excused, faults>>

\* The reader this wait looks at is done first: one reconnect, then polling.
ReaderDied(w) ==
    /\ At(w, "wait") /\ JobOf(w) \notin resolved /\ ~ReaderAlive(w)
    /\ IF worker[w].reconnects >= 1
       THEN StartsPolling(w)
       ELSE worker' = [worker EXCEPT ![w].pc = "connect", ![w].tries = 1, ![w].reconnects = 1]
    /\ UNCHANGED <<comfy, ws, pending, resolved, outcome, lastModel, missed, excused,
                   faults>>

\* A signature that differs from the last one restarts the stall clock.
Progressed(w, seen) == seen # "none" /\ seen # worker[w].sig
NotesProgress(w, seen) == worker' = [worker EXCEPT ![w].sig = seen]

\* A progress interval passes with nothing done: _check_progress sees progress,
\* or the reader is replaced by another worker while its GET is out, and the loop
\* goes round with what it finds; or the answer is no JSON and ends the job.
CheckProgress(w) ==
    /\ StallCheck /\ At(w, "wait") /\ JobOf(w) \notin resolved
    /\ \/ /\ \/ ReaderAlive(w) /\ Progressed(w, Entry(w)) /\ NotesProgress(w, Entry(w))
             \/ ~ReaderAlive(w) /\ ws.up /\ worker' = [worker EXCEPT ![w].reader = ws.conn]
          /\ NoFault /\ UNCHANGED <<pending, resolved, outcome, lastModel, excused>>
       \/ Fault /\ Quit(w, "failed")
    /\ UNCHANGED <<comfy, ws, missed>>

\* _check_progress sees none, or its GET fails, with the stall timeout exceeded.
Stall(w) ==
    /\ StallCheck
    /\ \/ /\ At(w, "wait") /\ JobOf(w) \notin resolved
          /\ (NoFault /\ ~Progressed(w, Entry(w))) \/ Fault
       \/ /\ At(w, "poll") /\ NoFault
          /\ Entry(w) \notin Verdicts /\ ~Progressed(w, Entry(w))
    /\ Leaves(w, "stalled", "none")
    /\ UNCHANGED <<comfy, ws, pending, resolved, outcome, lastModel, missed, excused>>

\* The stall is raised although the future may be done since the GET was sent.
RaiseStalled(w) ==
    /\ At(w, "stalled")
    /\ GiveUp(w)
    /\ UNCHANGED <<comfy, ws, missed, faults>>

\* Mutant: the websocket loop does not look at its deadline.
OnlyPollingDeadline(w) ==
    /\ At(w, "poll")
    /\ GiveUp(w)
    /\ UNCHANGED <<comfy, ws, missed, faults>>

\* timeout_s has passed: noticed by the websocket loop or by the polling loop.
Deadline(w) ==
    /\ At(w, "poll") \/ (At(w, "wait") /\ JobOf(w) \notin resolved)
    /\ GiveUp(w)
    /\ UNCHANGED <<comfy, ws, missed, faults>>

\* One round of _poll_until_done.  A status other than 200 only costs a round.
Poll(w) ==
    /\ At(w, "poll")
    /\ UNCHANGED <<comfy, ws, missed>>
    /\ \/ /\ NoFault /\ Entry(w) = "success"
          /\ Leaves(w, "fetch", "none") /\ LeaveWait(w)
          /\ UNCHANGED <<outcome, lastModel, excused>>
       \/ /\ NoFault /\ Entry(w) = "error"
          /\ Quit(w, "failed")
       \/ /\ NoFault /\ Entry(w) = "partial" /\ Progressed(w, "partial")
          /\ NotesProgress(w, "partial")
          /\ UNCHANGED <<pending, resolved, outcome, lastModel, excused>>
       \/ /\ NoFault                \* GET /history raises; ends the job, so uncounted
          /\ Quit(w, "failed")

-----------------------------------------------------------------------------
(* After the wait.                                                         *)

\* Mutant: the outputs are taken without a look at the status.
FetchUnchecked(w) ==
    /\ At(w, "fetch")
    /\ NoFault /\ End(w, "completed")
    /\ UNCHANGED <<comfy, ws, pending, resolved, missed>>

\* fetch_outputs and what follows it up to set_completed: an errored status
\* raises, an entry without usable outputs is a comfy_error.
Fetch(w) ==
    /\ At(w, "fetch")
    /\ UNCHANGED <<comfy, ws, pending, resolved, missed>>
    /\ \/ NoFault /\ Entry(w) = "success" /\ End(w, "completed")
       \/ NoFault /\ End(w, "failed")
       \/ Fault /\ End(w, "failed")

AfterCancel(w) ==
    IF worker[w].why = "timeout"
    THEN Goto(w, "free") /\ UNCHANGED <<outcome, lastModel, excused>>
    ELSE End(w, "failed")

\* cancel: GET /queue decides, _safe_cancel swallows every error.
Cancel(w) ==
    /\ At(w, "cancel")
    /\ UNCHANGED <<comfy, ws, pending, resolved, missed>>
    /\ \/ /\ NoFault /\ comfy.running = JobOf(w)
          /\ Goto(w, "interrupt") /\ UNCHANGED <<outcome, lastModel, excused>>
       \/ /\ NoFault /\ JobOf(w) \in Queued
          /\ Goto(w, "delete") /\ UNCHANGED <<outcome, lastModel, excused>>
       \/ /\ NoFault /\ Entry(w) \in Verdicts
          /\ AfterCancel(w)
       \/ /\ Fault
          /\ AfterCancel(w)

\* The running prompt ends: history entry, and an event if the socket is open.
Ends(p, verdict) ==
    /\ comfy' = [comfy EXCEPT !.running = NoJob, !.history[p] = verdict]
    /\ ws' = IF ws.up THEN [ws EXCEPT !.events = @ \cup {p}] ELSE ws
    /\ missed' = IF ws.up THEN missed ELSE missed \cup {p}

\* POST /interrupt strikes whatever runs now.
Interrupt(w) ==
    /\ At(w, "interrupt")
    /\ AfterCancel(w)
    /\ UNCHANGED <<pending, resolved>>
    /\ \/ NoFault /\ comfy.running # NoJob /\ Ends(comfy.running, "error")
       \/ NoFault /\ comfy.running = NoJob /\ UNCHANGED <<comfy, ws, missed>>
       \/ Fault /\ UNCHANGED <<comfy, ws, missed>>

\* The sidecar's queue without its i-th prompt.
without(i) == SubSeq(comfy.queue, 1, i - 1) \o SubSeq(comfy.queue, i + 1, Len(comfy.queue))

\* DELETE of a queued prompt; too late when it has started meanwhile.
Delete(w) ==
    /\ At(w, "delete")
    /\ AfterCancel(w)
    /\ UNCHANGED <<ws, pending, resolved, missed>>
    /\ \/ NoFault /\ \E i \in DOMAIN comfy.queue :
              comfy.queue[i] = JobOf(w) /\ comfy' = [comfy EXCEPT !.queue = without(i)]
       \/ NoFault /\ JobOf(w) \notin Queued /\ UNCHANGED comfy
       \/ Fault /\ UNCHANGED comfy

\* _safe_free, then set_failed(comfy_timeout).
Free(w) ==
    /\ At(w, "free")
    /\ comfy' \in {comfy, freed}
    /\ End(w, "timeout")
    /\ UNCHANGED <<ws, pending, resolved, missed, faults>>

-----------------------------------------------------------------------------
(* The sidecar, the connection and time.                                   *)

Start ==
    /\ comfy.running = NoJob /\ comfy.queue # <<>>
    /\ comfy' = [comfy EXCEPT !.queue = Tail(@), !.running = Head(comfy.queue),
                              !.loaded = @ \cup {ModelOf[Head(comfy.queue)]}]
    /\ UNCHANGED <<ws, pending, resolved, worker, outcome, lastModel, missed, excused,
                   faults>>

Step ==
    /\ comfy.running # NoJob /\ comfy.history[comfy.running] = "none"
    /\ comfy' = [comfy EXCEPT !.history[comfy.running] = "partial"]
    /\ UNCHANGED <<ws, pending, resolved, worker, outcome, lastModel, missed, excused,
                   faults>>

Finish ==
    /\ comfy.running # NoJob
    /\ \E v \in Verdicts : Ends(comfy.running, v)
    /\ UNCHANGED <<pending, resolved, worker, outcome, lastModel, excused, faults>>

\* Mutant: an event for a registered future is dropped.
ReceiveLoses(p) ==
    /\ p \in ws.events
    /\ ws' = [ws EXCEPT !.events = @ \ {p}]
    /\ missed' = IF p \in pending THEN missed ELSE missed \cup {p}
    /\ UNCHANGED <<comfy, pending, resolved, worker, outcome, lastModel, excused, faults>>

\* _ws_reader: an event without a registered future is dropped.
Receive(p) ==
    /\ p \in ws.events
    /\ ws' = [ws EXCEPT !.events = @ \ {p}]
    /\ resolved' = resolved \cup ({p} \cap pending)
    /\ missed' = IF p \in pending THEN missed ELSE missed \cup {p}
    /\ UNCHANGED <<comfy, pending, worker, outcome, lastModel, excused, faults>>

\* The connection breaks with what it has not delivered.
Drop ==
    /\ ws.up /\ Fault
    /\ ws' = [ws EXCEPT !.up = FALSE, !.events = {}]
    /\ missed' = missed \cup ws.events
    /\ UNCHANGED <<comfy, pending, resolved, worker, outcome, lastModel, excused>>

WorkerStep(w) ==
    \/ \E j \in Jobs : Take(w, j)
    \/ Swap(w) \/ Submit(w) \/ Accept(w) \/ Baseline(w)
    \/ Connect(w) \/ Return(w) \/ ReaderDied(w)
    \/ RaiseStalled(w) \/ Deadline(w) \/ Poll(w)
    \/ Fetch(w) \/ Cancel(w) \/ Interrupt(w) \/ Delete(w) \/ Free(w)

Environment ==
    \/ Start \/ Step \/ Finish \/ Drop
    \/ \E p \in Jobs : Receive(p)

\* Every job has ended and the sidecar is idle.
Quiescent ==
    /\ \A j \in Jobs : outcome[j] # "none"
    /\ comfy.running = NoJob /\ comfy.queue = <<>> /\ ws.events = {}
    /\ UNCHANGED vars

Next ==
    \/ \E w \in Workers : WorkerStep(w) \/ CheckProgress(w) \/ Stall(w)
    \/ Environment
    \/ Quiescent

Spec == Init /\ [][Next]_vars

\* The event loop runs every ready task and time passes, so a deadline arrives; the
\* sidecar owes nothing, and the progress check may see nothing and never raise.
Fairness == \A w \in Workers : WF_vars(WorkerStep(w))

FairSpec == Spec /\ Fairness

-----------------------------------------------------------------------------
(* Properties.                                                             *)

\* The event path of wait_for_completion says only that the prompt is over; a
\* job is completed only on a successful verdict, and outputs are fetched only
\* from prompts that are over, whichever of event and polling ended the wait.
VerdictIsTrue ==
    /\ \A j \in Jobs : outcome[j] = "completed" => comfy.history[j] = "success"
    /\ \A w \in Workers : At(w, "fetch") => Entry(w) \in Verdicts

\* _pending holds the futures of the waits in progress, and those of the waits
\* that the baseline reading of the stall check ended before their try; whichever
\* way any other wait ends (return, timeout, polling, an error), its finally takes
\* its future back, and the reader never resolves one that is not registered.
FuturesMatchWaits ==
    /\ pending = {JobOf(w) : w \in {v \in Workers : worker[v].pc \in WaitPcs}}
                 \cup {j \in Jobs : outcome[j] = "unread"}
    /\ resolved \subseteq pending

\* Two models share VRAM only if a job failed before (then _last_model_name is
\* stale), if two workers overlapped, or if an unverified unload was waved
\* through because of headroom.
DoubleLoadExplained ==
    Cardinality(comfy.loaded) > 1 => excused

\* A prompt that is over is given up at the deadline only if its event was lost
\* (sent before the future was registered or while the socket was down), is
\* still unread, or if the wait is polling; the stall check, which raises after
\* an await without another look at the future, is not covered.
TimeoutMeansMissed ==
    [][\A w \in Workers :
          (At(w, "wait") /\ worker'[w].why = "timeout" /\ Entry(w) \in Verdicts)
              => JobOf(w) \in missed \cup ws.events]_vars

\* Every job a worker takes ends, whatever sidecar and connection do: each
\* wait is bounded by its deadline and each later step is one call.
EveryWaitEnds ==
    \A w \in Workers : ~At(w, "idle") ~> At(w, "idle")
=============================================================================
