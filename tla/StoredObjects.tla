---------------------------- MODULE StoredObjects ----------------------------
(***************************************************************************)
(* The life of the output objects in S3: a worker uploads them one by one  *)
(* and then completes the row, the gateways serve them and record the      *)
(* first fetch, the orphan reaper deletes the ones nobody fetched, and the *)
(* process may die in between.  An object is <<job, index>>.               *)
(***************************************************************************)
EXTENDS Naturals, FiniteSets

CONSTANTS
    Jobs,
    Clients,      \* requests that read media, one at a time each
    MaxOutputs,   \* bound: outputs of one prompt
    MaxAttempts,  \* stop_after_attempt: puts per object
    MaxFaults,    \* bound: failing S3 calls and database writes
    MaxCrashes,   \* bound: deaths of the process
    MaxTouches    \* bound: later writes that refresh updated_at, per job

ASSUME ObjectsAssumption ==
    /\ MaxOutputs \in Nat \ {0} /\ MaxAttempts \in Nat \ {0}
    /\ MaxFaults \in Nat /\ MaxCrashes \in Nat /\ MaxTouches \in Nat

VARIABLES
    status,    \* of the row
    made,      \* outputs the worker has fetched from the sidecar
    next,      \* outputs it has uploaded; len(output_keys) once completed
    attempt,   \* put_object calls for the current output
    fetched,   \* fetched_at IS NOT NULL
    old,       \* updated_at < now - ttl
    touches,   \* writes that refreshed updated_at after completion
    bucket,    \* objects in S3
    todo,      \* objects the current pass of the reaper still has to delete
    reader,    \* what each client is doing
    reaped,    \* observer: objects the reaper has deleted
    up,        \* the process runs
    lost,      \* running rows whose worker died with the process
    faults, crashes

rowVars == <<status, made, next, attempt, fetched, old, touches>>
vars == <<rowVars, bucket, todo, reader, reaped, up, lost, faults, crashes>>

Indices == 0..(MaxOutputs - 1)
Objects == Jobs \X Indices

Statuses == {"queued", "running", "completed", "failed"}
Answers == {"none", "bytes", "gone", "refused"}
Readers == [pc : {"idle", "get", "mark"}, job : Jobs, index : Indices, answer : Answers]

TypeOK ==
    /\ status \in [Jobs -> Statuses]
    /\ made \in [Jobs -> 0..MaxOutputs] /\ next \in [Jobs -> 0..MaxOutputs]
    /\ attempt \in [Jobs -> 0..(MaxAttempts - 1)]
    /\ fetched \in [Jobs -> BOOLEAN] /\ old \in [Jobs -> BOOLEAN]
    /\ touches \in [Jobs -> 0..MaxTouches]
    /\ bucket \subseteq Objects /\ todo \subseteq Objects /\ reaped \subseteq Objects
    /\ reader \in [Clients -> Readers]
    /\ up \in BOOLEAN /\ lost \subseteq Jobs
    /\ faults \in 0..MaxFaults /\ crashes \in 0..MaxCrashes

Init ==
    /\ status = [j \in Jobs |-> "queued"]
    /\ made = [j \in Jobs |-> 0] /\ next = [j \in Jobs |-> 0]
    /\ attempt = [j \in Jobs |-> 0]
    /\ fetched = [j \in Jobs |-> FALSE] /\ old = [j \in Jobs |-> FALSE]
    /\ touches = [j \in Jobs |-> 0]
    /\ bucket = {} /\ todo = {} /\ reaped = {}
    /\ reader \in [Clients -> [pc : {"idle"}, job : Jobs, index : {0}, answer : {"none"}]]
    /\ up = TRUE /\ lost = {}
    /\ faults = 0 /\ crashes = 0

Fault == faults < MaxFaults /\ faults' = faults + 1
NoFault == UNCHANGED faults

-----------------------------------------------------------------------------
(* The worker.                                                             *)

Working(j) == up /\ status[j] = "running" /\ j \notin lost

\* set_running, and the outputs of the prompt; none at all is a comfy_error.
Produce(j) ==
    /\ up /\ status[j] = "queued"
    /\ \/ \E n \in 1..MaxOutputs :
             status' = [status EXCEPT ![j] = "running"] /\ made' = [made EXCEPT ![j] = n]
       \/ status' = [status EXCEPT ![j] = "failed"] /\ UNCHANGED made
    /\ UNCHANGED <<next, attempt, fetched, old, touches, bucket, todo, reader, reaped, up,
                   lost, faults, crashes>>

Fail(j) == status' = [status EXCEPT ![j] = "failed"]

\* Mutant: one upload too many.
UploadPastEnd(j) ==
    /\ Working(j) /\ next[j] <= made[j]
    /\ bucket' = bucket \cup {<<j, next[j]>>}
    /\ next' = [next EXCEPT ![j] = @ + 1]
    /\ UNCHANGED <<status, made, attempt, fetched, old, touches, todo, reader, reaped, up,
                   lost, faults, crashes>>

\* upload_generation_blob: success; a transient ClientError with attempts left;
\* or an error that ends the job, a StorageError or any other exception.  A put
\* that fails may still have stored the object.
Upload(j) ==
    /\ Working(j) /\ next[j] < made[j]
    /\ UNCHANGED <<made, fetched, old, touches, todo, reader, reaped, up, lost, crashes>>
    /\ \/ /\ NoFault /\ bucket' = bucket \cup {<<j, next[j]>>}
          /\ next' = [next EXCEPT ![j] = @ + 1]
          /\ attempt' = [attempt EXCEPT ![j] = 0] /\ UNCHANGED status
       \/ /\ Fault /\ bucket' \in {bucket, bucket \cup {<<j, next[j]>>}}
          /\ UNCHANGED next
          /\ \/ /\ attempt[j] + 1 < MaxAttempts
                /\ attempt' = [attempt EXCEPT ![j] = @ + 1] /\ UNCHANGED status
             \/ Fail(j) /\ UNCHANGED attempt

\* Mutant: the row is completed before its last output is stored.
CompleteEarly(j) ==
    /\ Working(j) /\ next[j] + 1 >= made[j]
    /\ NoFault /\ status' = [status EXCEPT ![j] = "completed"]
    /\ next' = [next EXCEPT ![j] = made[j]]
    /\ UNCHANGED <<made, attempt, fetched, old, touches, bucket, todo, reader, reaped, up,
                   lost, crashes>>

\* set_completed(output_keys) after the last upload; a failing write ends in the
\* catch-all of _process_one (a second fault while it records that is in JobQueue).
Complete(j) ==
    /\ Working(j) /\ next[j] = made[j]
    /\ \/ NoFault /\ status' = [status EXCEPT ![j] = "completed"]
       \/ Fault /\ Fail(j)
    /\ UNCHANGED <<made, next, attempt, fetched, old, touches, bucket, todo, reader, reaped,
                   up, lost, crashes>>

\* mark_* and set_webhook_delivery_status write updated_at after completion.
Touch(j) ==
    /\ up /\ status[j] = "completed" /\ touches[j] < MaxTouches
    /\ touches' = [touches EXCEPT ![j] = @ + 1]
    /\ old' = [old EXCEPT ![j] = FALSE]
    /\ UNCHANGED <<status, made, next, attempt, fetched, bucket, todo, reader, reaped, up,
                   lost, faults, crashes>>

\* ORPHAN_REAPER_TTL passes without such a write.
Age(j) ==
    /\ status[j] = "completed" /\ ~old[j]
    /\ old' = [old EXCEPT ![j] = TRUE]
    /\ UNCHANGED <<status, made, next, attempt, fetched, touches, bucket, todo, reader,
                   reaped, up, lost, faults, crashes>>

-----------------------------------------------------------------------------
(* The gateways get_image and get_video_asset, and the read-back of the    *)
(* binary endpoint.                                                        *)

Reply(c, a) == reader' = [reader EXCEPT ![c].pc = "idle", ![c].answer = a]

\* get_by_id and the checks on status, output_keys and index.
LookUp(c, j, i) ==
    /\ up /\ reader[c].pc = "idle"
    /\ reader' = [reader EXCEPT ![c] =
         IF status[j] = "completed" /\ i < next[j]
         THEN [pc |-> "get", job |-> j, index |-> i, answer |-> "none"]
         ELSE [pc |-> "idle", job |-> j, index |-> i, answer |-> "refused"]]
    /\ UNCHANGED <<rowVars, bucket, todo, reaped, up, lost, faults, crashes>>

ObjectOf(c) == <<reader[c].job, reader[c].index>>

\* get_object: bytes, StorageNotFoundError or StorageError.
GetObject(c) ==
    /\ up /\ reader[c].pc = "get"
    /\ \/ NoFault /\ ObjectOf(c) \in bucket /\ reader' = [reader EXCEPT ![c].pc = "mark"]
       \/ NoFault /\ ObjectOf(c) \notin bucket /\ Reply(c, "gone")
       \/ Fault /\ Reply(c, "refused")
    /\ UNCHANGED <<rowVars, bucket, todo, reaped, up, lost, crashes>>

\* set_fetched, then the response; it leaves updated_at alone.
MarkFetched(c) ==
    /\ up /\ reader[c].pc = "mark"
    /\ \/ /\ NoFault /\ Reply(c, "bytes")
          /\ fetched' = [fetched EXCEPT ![reader[c].job] = TRUE]
       \/ Fault /\ Reply(c, "refused") /\ UNCHANGED fetched
    /\ UNCHANGED <<status, made, next, attempt, old, touches, bucket, todo, reaped, up, lost,
                   crashes>>

-----------------------------------------------------------------------------
(* The orphan reaper.                                                      *)

\* Mutant: the query does not look at fetched_at.
OrphanIfOld(j) == status[j] = "completed" /\ old[j]

\* The WHERE clause of reap_once.
Orphan(j) == status[j] = "completed" /\ ~fetched[j] /\ old[j]

\* Mutant: the reaper is not started again after a restart.
ReapOnlyFirstBoot ==
    /\ up /\ todo = {} /\ crashes = 0
    /\ todo' = {o \in Objects : Orphan(o[1]) /\ o[2] < next[o[1]]}
    /\ UNCHANGED <<rowVars, bucket, reader, reaped, up, lost, faults, crashes>>

\* The SELECT of one pass.
ReapRead ==
    /\ up /\ todo = {}
    /\ todo' = {o \in Objects : Orphan(o[1]) /\ o[2] < next[o[1]]}
    /\ UNCHANGED <<rowVars, bucket, reader, reaped, up, lost, faults, crashes>>

\* delete_object, with a missing key tolerated and a failure only logged.
ReapDelete(o) ==
    /\ up /\ o \in todo
    /\ todo' = todo \ {o}
    /\ \/ NoFault /\ bucket' = bucket \ {o} /\ reaped' = reaped \cup {o}
       \/ Fault /\ UNCHANGED <<bucket, reaped>>
    /\ UNCHANGED <<rowVars, reader, up, lost, crashes>>

-----------------------------------------------------------------------------
(* Death and restart.                                                      *)

Crash ==
    /\ up /\ crashes < MaxCrashes
    /\ crashes' = crashes + 1 /\ up' = FALSE
    /\ todo' = {}
    /\ lost' = lost \cup {j \in Jobs : status[j] = "running"}
    /\ reader' = [c \in Clients |-> [reader[c] EXCEPT !.pc = "idle", !.answer = "none"]]
    /\ UNCHANGED <<rowVars, bucket, reaped, faults>>

\* The lifespan: ensure_bucket, which may fail and end the start, then the tasks.
Restart ==
    /\ ~up
    /\ \/ NoFault /\ up' = TRUE
       \/ Fault /\ UNCHANGED up
    /\ UNCHANGED <<rowVars, bucket, todo, reader, reaped, lost, crashes>>

\* Mutant: recovery puts the row back into the queue.
RecoverRequeues(j) ==
    /\ up /\ j \in lost
    /\ status' = [status EXCEPT ![j] = "queued"] /\ lost' = lost \ {j}
    /\ UNCHANGED <<made, next, attempt, fetched, old, touches, bucket, todo, reader, reaped,
                   up, faults, crashes>>

\* recover_jobs fails the running rows it finds; what they uploaded stays.
Recover(j) ==
    /\ up /\ j \in lost
    /\ Fail(j) /\ lost' = lost \ {j}
    /\ UNCHANGED <<made, next, attempt, fetched, old, touches, bucket, todo, reader, reaped,
                   up, faults, crashes>>

-----------------------------------------------------------------------------
WorkerStep(j) == Produce(j) \/ Upload(j) \/ Complete(j) \/ Touch(j) \/ Age(j) \/ Recover(j)
ReaderStep(c) ==
    \/ \E j \in Jobs, i \in Indices : LookUp(c, j, i)
    \/ GetObject(c) \/ MarkFetched(c)
ReaperStep == ReapRead \/ \E o \in Objects : ReapDelete(o)

Next ==
    \/ \E j \in Jobs : WorkerStep(j)
    \/ \E c \in Clients : ReaderStep(c)
    \/ ReaperStep \/ Crash \/ Restart

Spec == Init /\ [][Next]_vars

\* The reaper's loop goes on, a supervisor restarts the process, and time passes.
Fairness ==
    /\ WF_vars(ReaperStep) /\ WF_vars(Restart)
    /\ \A j \in Jobs : WF_vars(Age(j))

FairSpec == Spec /\ Fairness

-----------------------------------------------------------------------------
(* Properties.                                                             *)

\* A completed row names only objects that are in S3 or that the reaper deleted,
\* and a gateway says that bytes are gone only of objects the reaper deleted: no
\* failed or repeated put, crash or failing write makes a completed job lose them.
GoneMeansReaped ==
    /\ \A j \in Jobs, i \in Indices :
          (status[j] = "completed" /\ i < next[j]) => <<j, i>> \in bucket \cup reaped
    /\ \A c \in Clients : reader[c].answer = "gone" => ObjectOf(c) \in reaped

\* An object no row names belongs to a job that is being stored, or that failed or
\* died on the way; the reaper never finds the latter.
LeftoversExplained ==
    \A o \in bucket :
        \/ status[o[1]] = "completed" /\ o[2] < next[o[1]]
        \/ status[o[1]] \in {"running", "failed"} /\ o \notin reaped

InPass(j) == \E i \in Indices : <<j, i>> \in todo

\* Once a fetch is recorded and no pass holds the row, no later pass takes it up
\* and its objects stay: only a pass that read the row before the fetch deletes
\* them after it.
KeptOnceFetched ==
    [][\A j \in Jobs : (fetched[j] /\ ~InPass(j)) =>
          /\ \A i \in Indices : <<j, i>> \notin todo'
          /\ \A i \in Indices : <<j, i>> \in bucket => <<j, i>> \in bucket']_vars

\* A completed job that nobody fetches loses its objects in the end, whatever
\* deletes fail and however often the process restarts.
OrphansGo ==
    \A j \in Jobs :
        status[j] = "completed" ~>
            (fetched[j] \/ \A i \in Indices : <<j, i>> \notin bucket)
=============================================================================
