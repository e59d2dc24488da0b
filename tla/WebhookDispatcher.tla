-------------------------- MODULE WebhookDispatcher --------------------------
(***************************************************************************)
(* The webhook dispatcher (app/webhooks/dispatcher.py, retry.py) over the  *)
(* jobs and webhook_deliveries tables.                                     *)
(*                                                                         *)
(* A tick scans the candidates and runs one _process_one task per row,     *)
(* at most MaxInFlight of them inside the semaphore; the next tick starts  *)
(* when all tasks of this one are over.  Every database write and the POST *)
(* are separate steps, so a crash or an exception can fall between them.   *)
(* The rest of the service appears as Finish and HandOver, the writes that *)
(* make a row a candidate; the receiver as the answer it gives to a POST.  *)
(***************************************************************************)
EXTENDS Jobs, Sequences, FiniteSets

CONSTANTS JobIds,       \* jobs whose request named a webhook url
          MaxInFlight,  \* WEBHOOK_MAX_IN_FLIGHT
          Schedule,     \* SCHEDULE_S: the five delays, in seconds
          MaxFaults,    \* bound: exceptions inside a task
          MaxCrashes    \* bound: process deaths

ASSUME DispatcherAssumption ==
    /\ MaxInFlight \in Nat \ {0}
    /\ Schedule \in Seq(Nat \ {0}) /\ Len(Schedule) > 0
    /\ MaxFaults \in Nat /\ MaxCrashes \in Nat

VARIABLES
    up,        \* the process is alive
    rows,      \* the jobs table
    attempts,  \* webhook_deliveries of each job, ordered by attempt_n
    task,      \* the _process_one task of each job in the running tick
    posts,     \* receiver: answers it sent, in order
    faults, crashes

vars == <<up, rows, attempts, task, posts, faults, crashes>>

\* The receiver's answer: 2xx; 429, 5xx or a transport error; anything else.
Answers == {"ok", "retryable", "rejected"}

\* An attempt row.  delay is the delay of next_retry_at (0 for NULL) and due
\* says whether that time has passed; answer is the class of status_code.
AttemptStatuses == {"pending", "delivering", "succeeded", "failed"}
Delays == {0} \cup {Schedule[i] : i \in 1..Len(Schedule)}
Attempt == [status : AttemptStatuses, delay : Delays, due : BOOLEAN,
            answer : Answers \cup {"none"}]

Stages == {"none", "waiting", "decide", "create", "deliver", "send", "close", "publish"}

\* A task: its stage, the row it was started with, and the result it is
\* about to write (verdict: attempt status, delay: next_retry_at, answer:
\* status_code).
Verdicts == {"none", "succeeded", "failed"}
Tasks == [stage : Stages, seen : Row, verdict : Verdicts, delay : Delays,
          answer : Answers \cup {"none"}]

NoTask == [stage |-> "none", seen |-> NoRow, verdict |-> "none", delay |-> 0,
           answer |-> "none"]

TypeOK ==
    /\ up \in BOOLEAN
    /\ rows \in [JobIds -> Row]
    /\ attempts \in [JobIds -> Seq(Attempt)]
    /\ task \in [JobIds -> Tasks]
    /\ posts \in [JobIds -> Seq(Answers)]
    /\ faults \in 0..MaxFaults
    /\ crashes \in 0..MaxCrashes

Init ==
    /\ up = TRUE
    /\ rows = [j \in JobIds |-> set_running(create_queued("sync", TRUE, 0))]
    /\ attempts = [j \in JobIds |-> <<>>]
    /\ task = [j \in JobIds |-> NoTask]
    /\ posts = [j \in JobIds |-> <<>>]
    /\ faults = 0
    /\ crashes = 0

-----------------------------------------------------------------------------
(* The rest of the service.                                                *)

\* The pipeline ends: set_completed or set_failed.
Finish(j) ==
    /\ up
    /\ rows[j].status = "running"
    /\ rows' \in {[rows EXCEPT ![j] = set_completed(@)],
                  [rows EXCEPT ![j] = set_failed(@, "comfy_error")]}
    /\ UNCHANGED <<up, attempts, task, posts, faults, crashes>>

\* The barrier opens: the client of a completed job was answered, or left.
HandOver(j) ==
    /\ up
    /\ ~rows[j].webhook_handover
    /\ \/ /\ rows[j].status = "completed"
          /\ rows' = [rows EXCEPT ![j] = mark_response_delivered(@)]
       \/ rows' = [rows EXCEPT ![j] = mark_async_with_handover(@)]
    /\ UNCHANGED <<up, attempts, task, posts, faults, crashes>>

-----------------------------------------------------------------------------
(* The dispatcher.                                                         *)

Latest(j) == attempts[j][Len(attempts[j])]

InFlight == {j \in JobIds : task[j].stage \notin {"none", "waiting"}}

Candidates == {j \in JobIds : IsWebhookCandidate(rows[j])}

\* Mutant: a retry is always scheduled.
NextRetryUncapped(n) == Schedule[IF n >= Len(Schedule) THEN Len(Schedule) ELSE n + 1]

\* next_retry_at: SCHEDULE_S[attempt_n] with a 1-based attempt_n on a 0-based
\* tuple, None from the last attempt on.
next_retry_at(n) == IF n >= Len(Schedule) THEN 0 ELSE Schedule[n + 1]

\* _tick: scan, then one task per candidate.
Tick ==
    /\ up
    /\ \A j \in JobIds : task[j].stage = "none"
    /\ Candidates # {}
    /\ task' = [j \in JobIds |-> IF j \in Candidates
                                 THEN [NoTask EXCEPT !.stage = "waiting", !.seen = rows[j]]
                                 ELSE NoTask]
    /\ UNCHANGED <<up, rows, attempts, posts, faults, crashes>>

\* Mutant: no semaphore.
AcquireUnbounded(j) ==
    /\ task[j].stage = "waiting"
    /\ task' = [task EXCEPT ![j].stage = "decide"]
    /\ UNCHANGED <<up, rows, attempts, posts, faults, crashes>>

\* async with self._sema.
Acquire(j) ==
    /\ task[j].stage = "waiting"
    /\ Cardinality(InFlight) < MaxInFlight
    /\ task' = [task EXCEPT ![j].stage = "decide"]
    /\ UNCHANGED <<up, rows, attempts, posts, faults, crashes>>

Suppresses(j) == task[j].seen.mode = "sync" /\ task[j].seen.response_delivered

\* Mutant: an attempt left open by a dead process is not closed.
DecideLeavesOpen(j) ==
    /\ task[j].stage = "decide"
    /\ task' = [task EXCEPT ![j].stage = "create"]
    /\ UNCHANGED <<up, rows, attempts, posts, faults, crashes>>

\* Mutant: the branch for a recorded success is missing.
DecideForgetsSuccess(j) ==
    /\ task[j].stage = "decide"
    /\ task' = [task EXCEPT ![j].stage = "create"]
    /\ attempts' = IF attempts[j] # <<>> /\ Latest(j).status \in {"pending", "delivering"}
                   THEN [attempts EXCEPT ![j][Len(attempts[j])].status = "failed"]
                   ELSE attempts
    /\ UNCHANGED <<up, rows, posts, faults, crashes>>

\* The first part of _process_one, up to attempt_n: suppress, repair the
\* status after a recorded success, wait for a retry that is not due, close
\* an attempt a dead process left open, or go on to a new attempt.
Decide(j) ==
    /\ task[j].stage = "decide"
    /\ \/ /\ Suppresses(j)
          /\ rows' = [rows EXCEPT ![j] = set_webhook_delivery_status(@, "suppressed")]
          /\ task' = [task EXCEPT ![j] = NoTask]
          /\ UNCHANGED attempts
       \/ /\ ~Suppresses(j) /\ attempts[j] = <<>>
          /\ task' = [task EXCEPT ![j].stage = "create"]
          /\ UNCHANGED <<rows, attempts>>
       \/ /\ ~Suppresses(j) /\ attempts[j] # <<>>
          /\ \/ /\ Latest(j).status \in {"pending", "delivering"}
                /\ attempts' = [attempts EXCEPT ![j][Len(attempts[j])].status = "failed"]
                /\ task' = [task EXCEPT ![j].stage = "create"]
                /\ UNCHANGED rows
             \/ /\ Latest(j).status = "succeeded"
                /\ rows' = [rows EXCEPT ![j] = set_webhook_delivery_status(@, "succeeded")]
                /\ task' = [task EXCEPT ![j] = NoTask]
                /\ UNCHANGED attempts
             \/ /\ Latest(j).status = "failed"
                /\ task' = [task EXCEPT ![j] = IF Latest(j).delay # 0 /\ ~Latest(j).due
                                               THEN NoTask
                                               ELSE [@ EXCEPT !.stage = "create"]]
                /\ UNCHANGED <<rows, attempts>>
    /\ UNCHANGED <<up, posts, faults, crashes>>

\* create_attempt; the table's CHECK (attempt_n BETWEEN 1 AND 5) refuses a
\* further one and the IntegrityError ends the task inside gather.
Create(j) ==
    /\ task[j].stage = "create"
    /\ IF Len(attempts[j]) < Len(Schedule)
       THEN /\ attempts' = [attempts EXCEPT ![j] =
                               Append(@, [status |-> "pending", delay |-> 0, due |-> FALSE,
                                          answer |-> "none"])]
            /\ task' = [task EXCEPT ![j].stage = "deliver"]
       ELSE /\ task' = [task EXCEPT ![j] = NoTask]
            /\ UNCHANGED attempts
    /\ UNCHANGED <<up, rows, posts, faults, crashes>>

\* set_attempt_delivering.
Deliver(j) ==
    /\ task[j].stage = "deliver"
    /\ attempts' = [attempts EXCEPT ![j][Len(attempts[j])].status = "delivering"]
    /\ task' = [task EXCEPT ![j].stage = "send"]
    /\ UNCHANGED <<up, rows, posts, faults, crashes>>

\* The re-checks (_toctou_allows, the signing secret) may refuse without a
\* POST; otherwise the receiver answers and the answer is classified.
Send(j) ==
    /\ task[j].stage = "send"
    /\ \/ /\ task' = [task EXCEPT ![j].stage = "close", ![j].verdict = "failed"]
          /\ UNCHANGED posts
       \/ \E answer \in Answers :
          /\ posts' = [posts EXCEPT ![j] = Append(@, answer)]
          /\ task' = [task EXCEPT
                ![j].stage = "close",
                ![j].answer = answer,
                ![j].verdict = IF answer = "ok" THEN "succeeded" ELSE "failed",
                ![j].delay = IF answer = "retryable" THEN next_retry_at(Len(attempts[j])) ELSE 0]
    /\ UNCHANGED <<up, rows, attempts, faults, crashes>>

\* complete_attempt.
Close(j) ==
    /\ task[j].stage = "close"
    /\ attempts' = [attempts EXCEPT ![j][Len(attempts[j])] =
                       [status |-> task[j].verdict, delay |-> task[j].delay, due |-> FALSE,
                        answer |-> task[j].answer]]
    /\ task' = [task EXCEPT ![j].stage = "publish"]
    /\ UNCHANGED <<up, rows, posts, faults, crashes>>

\* Mutant: whatever is not retried counts as delivered.
PublishIgnoresVerdict(j) ==
    /\ task[j].stage = "publish"
    /\ rows' = [rows EXCEPT ![j] = set_webhook_delivery_status(@,
                   IF task[j].delay # 0 THEN "pending" ELSE "succeeded")]
    /\ task' = [task EXCEPT ![j] = NoTask]
    /\ UNCHANGED <<up, attempts, posts, faults, crashes>>

\* set_webhook_delivery_status, which ends the task.
Publish(j) ==
    /\ task[j].stage = "publish"
    /\ rows' = [rows EXCEPT ![j] = set_webhook_delivery_status(@,
                   IF task[j].verdict = "succeeded" THEN "succeeded"
                   ELSE IF task[j].delay # 0 THEN "pending" ELSE "failed")]
    /\ task' = [task EXCEPT ![j] = NoTask]
    /\ UNCHANGED <<up, attempts, posts, faults, crashes>>

\* Time passes a next_retry_at.
Elapse(j) ==
    /\ attempts[j] # <<>>
    /\ Latest(j).delay # 0 /\ ~Latest(j).due
    /\ attempts' = [attempts EXCEPT ![j][Len(attempts[j])].due = TRUE]
    /\ UNCHANGED <<up, rows, task, posts, faults, crashes>>

-----------------------------------------------------------------------------
(* Failures.                                                               *)

\* An exception other than httpx.HTTPError (a database error, a bad url): the
\* task is over, gather(return_exceptions=True) drops the exception.
TaskRaises(j) ==
    /\ task[j].stage \notin {"none", "waiting"}
    /\ faults < MaxFaults
    /\ faults' = faults + 1
    /\ task' = [task EXCEPT ![j] = NoTask]
    /\ UNCHANGED <<up, rows, attempts, posts, crashes>>

Crash ==
    /\ up
    /\ crashes < MaxCrashes
    /\ crashes' = crashes + 1
    /\ up' = FALSE
    /\ task' = [j \in JobIds |-> NoTask]
    /\ UNCHANGED <<rows, attempts, posts, faults>>

Restart ==
    /\ ~up
    /\ up' = TRUE
    /\ UNCHANGED <<rows, attempts, task, posts, faults, crashes>>

TaskStep(j) ==
    \/ Acquire(j) \/ Decide(j) \/ Create(j) \/ Deliver(j) \/ Send(j)
    \/ Close(j) \/ Publish(j)

\* Every webhook is settled: the loop of run() finds no candidate.
Quiescent ==
    /\ up
    /\ \A j \in JobIds : rows[j].webhook_delivery_status # "pending" /\ task[j] = NoTask
    /\ UNCHANGED vars

Next ==
    \/ Tick \/ Crash \/ Restart \/ Quiescent
    \/ \E j \in JobIds : Finish(j) \/ HandOver(j) \/ TaskStep(j) \/ Elapse(j) \/ TaskRaises(j)

Spec == Init /\ [][Next]_vars

\* The loop of run() never ends, tasks are scheduled and every POST has a
\* timeout, time passes, and a dead process is restarted.
Fairness ==
    /\ WF_vars(Tick) /\ WF_vars(Restart)
    /\ \A j \in JobIds : WF_vars(TaskStep(j)) /\ WF_vars(Elapse(j))

FairSpec == Spec /\ Fairness

-----------------------------------------------------------------------------
(* Properties.                                                             *)

Accepted(j) == \E i \in 1..Len(posts[j]) : posts[j][i] = "ok"

\* The delivery status published on a job tells the truth about the wire:
\* "succeeded" only if the receiver answered a POST with 2xx, "suppressed"
\* only if the receiver was never called, "failed" only if it never accepted
\* an attempt whose outcome was recorded.
StatusIsTrue ==
    \A j \in JobIds :
        /\ rows[j].webhook_delivery_status = "succeeded" => Accepted(j)
        /\ rows[j].webhook_delivery_status = "suppressed" => posts[j] = <<>>
        /\ rows[j].webhook_delivery_status = "failed" =>
              \A i \in 1..Len(attempts[j]) : attempts[j][i].status # "succeeded"

\* The variables keep their types and the attempt log is well formed across crashes
\* and exceptions: at most one attempt is open and it is the last one, every earlier
\* one has failed, and the receiver was never called more often than there are
\* attempts.
AttemptLog ==
    /\ TypeOK
    /\ \A j \in JobIds :
          /\ Len(attempts[j]) <= Len(Schedule)
          /\ \A i \in 1..Len(attempts[j]) :
                i < Len(attempts[j]) => attempts[j][i].status = "failed"
          /\ Len(posts[j]) <= Len(attempts[j])

\* The barrier and the semaphore: the receiver is called only for a terminal
\* row that was handed over, and by at most MaxInFlight tasks at a time.
BarrierAndSemaphore ==
    /\ \A j \in JobIds : task[j].stage # "none" =>
          /\ rows[j].webhook_handover /\ IsTerminal(rows[j])
          /\ rows[j].mode = task[j].seen.mode
          /\ rows[j].response_delivered = task[j].seen.response_delivered
    /\ Cardinality(InFlight) <= MaxInFlight

\* Once an attempt is recorded as succeeded the receiver is not called again,
\* whatever crashes between complete_attempt and set_webhook_delivery_status.
NoPostAfterSuccess ==
    [][\A j \in JobIds :
          (\E i \in 1..Len(attempts[j]) : attempts[j][i].status = "succeeded")
              => posts'[j] = posts[j]]_vars

\* Every job that becomes a candidate ends with a published delivery status:
\* succeeded, failed or suppressed (no retry is lost, no job starves behind
\* the semaphore).
EveryWebhookSettles ==
    \A j \in JobIds :
        IsWebhookCandidate(rows[j]) ~> rows[j].webhook_delivery_status # "pending"

\* The last attempt was made and no task is left to publish its outcome.
CutShort(j) ==
    /\ faults + crashes > 0
    /\ task[j] = NoTask
    /\ Len(attempts[j]) = Len(Schedule) /\ Latest(j).status # "succeeded"

\* With exceptions and process death a candidate still ends with a published status,
\* unless one of them struck in the last attempt the table admits and no success was
\* recorded: the next scan repairs everything else (run, _tick, _process_one).
SettlesUnlessCutShort ==
    \A j \in JobIds :
        IsWebhookCandidate(rows[j]) ~>
            rows[j].webhook_delivery_status # "pending" \/ CutShort(j)
=============================================================================
