------------------------------ MODULE LoraFetch ------------------------------
(***************************************************************************)
(* The Civitai fetcher (app/loras/civitai.py) with its table               *)
(* (app/queue/fetches.py, migrations/003_lora_fetches.sql), its endpoint   *)
(* (app/api/loras.py), its boot recovery (app/queue/fetches_recovery.py)   *)
(* and the LRU eviction (app/loras/eviction.py) against the generation     *)
(* jobs that use the files.                                                *)
(*                                                                         *)
(* A POST and the task it spawns are named by the request id of the row    *)
(* the POST may insert.  A version stands for its file too: the canonical  *)
(* name civitai/<slug>_<version> determines it.  A step ends at an await   *)
(* whose result matters: a row write, a read of a table, the stream.       *)
(***************************************************************************)
EXTENDS Integers, FiniteSets, FiniteSetsExt

CONSTANTS
    Requests,       \* POST /v1/loras/fetch calls
    Versions,       \* civitai_version_id
    Size,           \* version -> size of its file
    Claims,         \* sizes the metadata may state (0: no sizeKB)
    FileMax,        \* LORA_MAX_SIZE_BYTES
    DirMax,         \* LORA_DIR_MAX_SIZE_GB
    MaxConcurrent,  \* LORA_MAX_CONCURRENT_FETCHES
    GenJobs,        \* generation jobs that name one LoRA each
    Kind,           \* generation job -> "image" or "video"
    MaxFaults,      \* bound: tasks that end without a verdict in their row
    MaxStops,       \* bound: shutdowns and process deaths
    None            \* no request, no version

ASSUME FetchAssumption ==
    /\ IsFiniteSet(Requests) /\ IsFiniteSet(Versions)
    /\ Size \in [Versions -> Nat \ {0}] /\ Claims \subseteq Nat
    /\ FileMax \in Nat /\ DirMax \in Nat
    /\ MaxConcurrent \in Nat \ {0}
    /\ Kind \in [GenJobs -> {"image", "video"}]
    /\ MaxFaults \in Nat /\ MaxStops \in Nat
    /\ None \notin Requests \cup Versions

VARIABLES
    phase,   \* of the process
    todo,    \* recover_fetches: rows of its scan not yet flipped
    post,    \* the handler of each POST
    rows,    \* the lora_fetches table
    task,    \* the _run task of each request
    locks,   \* _version_locks: the lock object of a version, named by its creator
    disk,    \* the files of each version
    job,     \* generation jobs
    lost,    \* requests whose task ended without a verdict: the read of its
             \* row or the last-resort set_failed raised
    stops

vars == <<phase, todo, post, rows, task, locks, disk, job, lost, stops>>

-----------------------------------------------------------------------------
(* The lora_fetches table.                                                 *)

_NON_TERMINAL == {"pending", "downloading", "verifying"}
FetchStatus == _NON_TERMINAL \cup {"none", "done", "failed"}

_ALLOWED_TRANSITIONS ==
    [pending     |-> {"downloading", "failed"},
     downloading |-> {"verifying", "failed"},
     verifying   |-> {"done", "failed"},
     done        |-> {}, failed |-> {}]

\* "refused" is any code an error branch of _fetch writes (civitai_auth,
\* civitai_version_not_found, civitai_unavailable, validation_error,
\* lora_too_large, insufficient_storage, sha_mismatch).
ErrorCodes == {"refused", "internal", "service_restarted"}

LoraRow == [status : FetchStatus, version : Versions \cup {None},
            error_code : ErrorCodes \cup {"none"}, handover : BOOLEAN,
            dest_name : BOOLEAN]

NoLoraRow == [status |-> "none", version |-> None, error_code |-> "none",
              handover |-> FALSE, dest_name |-> FALSE]

create_pending(v) == [NoLoraRow EXCEPT !.status = "pending", !.version = v]

\* Only called from a status that _ALLOWED_TRANSITIONS lets go to the target
\* (TransitionsAllowed); otherwise the code raises InvalidTransitionError.
set_status(row, target) == [row EXCEPT !.status = target]

set_failed(row, code, ho) ==
    [row EXCEPT !.status = "failed", !.error_code = code, !.handover = ho]

set_dest_name(row) == [row EXCEPT !.dest_name = TRUE]

\* find_active_by_version and the partial unique index: the non-terminal
\* rows of a version.
find_active_by_version(v) ==
    {r \in Requests : rows[r].version = v /\ rows[r].status \in _NON_TERMINAL}

-----------------------------------------------------------------------------
(* Tasks, files and generation jobs.                                       *)

\* Where a task is.  Up to "slot" it waits for the semaphore and the lock;
\* "internal" is the last except clause of _run.
FetchStages == {"begin", "meta", "place", "scan", "evict", "unlink", "open", "stream",
                "verify", "sidecar", "replace", "name", "again", "finish", "fail"}
Holding == FetchStages \cup {"internal"}
Stages == Holding \cup {"none", "queued", "slot"}

Ranks == {"never", "old"}
Tasks == [stage : Stages, lock : Requests \cup {None}, claimed : Claims \cup {0},
          code : ErrorCodes \cup {"none"}, required : Int, reclaimed : Nat,
          cands : SUBSET (Ranks \X Versions), victim : Versions \cup {None}]

NoTask == [stage |-> "none", lock |-> None, claimed |-> 0, code |-> "none",
           required |-> 0, reclaimed |-> 0, cands |-> {}, victim |-> None]

\* What a file holds: "drop" is an operator's own file, "good" and "bad" are
\* downloads whose hash is or is not the one of the metadata.
Content == {"absent", "partial", "drop", "good", "bad"}
Files == [file : Content, tmp : Content, sidecar : {"none", "foreign", "civitai"},
          used : {"never", "old", "recent"}]

\* A generation job: accepted while "active" (queued) and "running".
GenJob == [stage : {"none", "checked", "touched", "active", "running", "ended"},
           lora : Versions \cup {None}]

NoLora(stage) == [stage |-> stage, lora |-> None]

Present(v) == disk[v].file # "absent"

TypeOK ==
    /\ phase \in {"up", "stopping", "down", "recovering"}
    /\ todo \subseteq Requests
    /\ post \in [Requests -> [stage : {"idle", "insert", "refind", "answered"},
                              version : Versions \cup {None},
                              reply : Requests \cup {None}]]
    /\ rows \in [Requests -> LoraRow]
    /\ task \in [Requests -> Tasks]
    /\ locks \in [Versions -> Requests \cup {None}]
    /\ disk \in [Versions -> Files]
    /\ job \in [GenJobs -> GenJob]
    /\ lost \subseteq Requests /\ Cardinality(lost) <= MaxFaults
    /\ stops \in 0..MaxStops

\* A clean table; some names are taken by files an operator put there, with
\* or without a sidecar of their own, or by files fetched and used long ago.
Init ==
    /\ phase = "up" /\ todo = {} /\ lost = {} /\ stops = 0
    /\ post = [r \in Requests |-> [stage |-> "idle", version |-> None, reply |-> None]]
    /\ rows = [r \in Requests |-> NoLoraRow]
    /\ task = [r \in Requests |-> NoTask]
    /\ locks = [v \in Versions |-> None]
    /\ disk \in [Versions -> [file : {"absent"}, tmp : {"absent"},
                              sidecar : {"none"}, used : {"never"}]
                        \cup [file : {"drop"}, tmp : {"absent"},
                              sidecar : {"none", "foreign"}, used : {"never"}]
                        \cup [file : {"good"}, tmp : {"absent"},
                              sidecar : {"civitai"}, used : {"old"}]]
    /\ job = [j \in GenJobs |-> NoLora("none")]

-----------------------------------------------------------------------------
(* POST /v1/loras/fetch.                                                   *)

\* The first look for an active fetch of the version.
Post(r, v) ==
    /\ phase = "up" /\ post[r].stage = "idle"
    /\ \/ \E q \in find_active_by_version(v) :
              post' = [post EXCEPT ![r] = [stage |-> "answered", version |-> v, reply |-> q]]
       \/ /\ find_active_by_version(v) = {}
          /\ post' = [post EXCEPT ![r] = [stage |-> "insert", version |-> v, reply |-> None]]
    /\ UNCHANGED <<phase, todo, rows, task, locks, disk, job, lost, stops>>

\* Mutant: the partial unique index is missing.
UniqueIndexAllows_Missing(v) == TRUE

\* create_pending: the unique index refuses a second active row
\* (IntegrityError); otherwise enqueue spawns the task before the next await.
UniqueIndexAllows(v) == find_active_by_version(v) = {}

Insert(r) ==
    LET v == post[r].version IN
    /\ phase = "up" /\ post[r].stage = "insert"
    /\ \/ /\ UniqueIndexAllows(v)
          /\ rows' = [rows EXCEPT ![r] = create_pending(v)]
          /\ task' = [task EXCEPT ![r].stage = "queued"]
          /\ post' = [post EXCEPT ![r].stage = "answered", ![r].reply = r]
       \/ /\ ~ UniqueIndexAllows(v)
          /\ post' = [post EXCEPT ![r].stage = "refind"]
          /\ UNCHANGED <<rows, task>>
    /\ UNCHANGED <<phase, todo, locks, disk, job, lost, stops>>

\* The loser looks again: the winner's id, or 503 when it is already over.
Refind(r) ==
    /\ phase = "up" /\ post[r].stage = "refind"
    /\ \/ \E q \in find_active_by_version(post[r].version) :
              post' = [post EXCEPT ![r].stage = "answered", ![r].reply = q]
       \/ /\ find_active_by_version(post[r].version) = {}
          /\ post' = [post EXCEPT ![r].stage = "answered"]
    /\ UNCHANGED <<phase, todo, rows, task, locks, disk, job, lost, stops>>

-----------------------------------------------------------------------------
(* _run: semaphore, version lock, and the way out.                         *)

InSemaphore == {r \in Requests : task[r].stage \in Holding \cup {"slot"}}

Holds(r, lock) == task[r].stage \in Holding /\ task[r].lock = lock

\* Mutant: no semaphore.
SemaphoreFree_Unbounded == TRUE

\* asyncio.Semaphore(max_concurrent).
SemaphoreFree == Cardinality(InSemaphore) < MaxConcurrent

\* Acquire the semaphore and look up or create the lock of the version.
TakeSlot(r) ==
    LET v == rows[r].version
        lock == IF locks[v] = None THEN r ELSE locks[v] IN
    /\ phase = "up" /\ task[r].stage = "queued"
    /\ SemaphoreFree
    /\ locks' = [locks EXCEPT ![v] = lock]
    /\ task' = [task EXCEPT ![r].stage = "slot", ![r].lock = lock]
    /\ UNCHANGED <<phase, todo, post, rows, disk, job, lost, stops>>

TakeLock(r) ==
    /\ phase = "up" /\ task[r].stage = "slot"
    /\ \A q \in Requests \ {r} : ~ Holds(q, task[r].lock)
    /\ task' = [task EXCEPT ![r].stage = "begin"]
    /\ UNCHANGED <<phase, todo, post, rows, locks, disk, job, lost, stops>>

\* get_by_id raises, outside every try of _run: the task is over, the row is not.
RowReadFails(r) ==
    /\ phase = "up" /\ task[r].stage = "queued"
    /\ Cardinality(lost) < MaxFaults
    /\ task' = [task EXCEPT ![r] = NoTask]
    /\ lost' = lost \cup {r}
    /\ UNCHANGED <<phase, todo, post, rows, locks, disk, job, stops>>

\* _maybe_prune_lock: forget the lock unless somebody else holds it.
pruned(r) ==
    LET v == rows[r].version IN
    IF \E q \in Requests \ {r} : Holds(q, locks[v]) THEN locks
    ELSE [locks EXCEPT ![v] = None]

\* The last write of a task and the release of lock and semaphore.  The commit
\* of the write is awaited, but the connection's thread answers in the order of
\* its calls: nobody who has seen the row runs before the release.  A
\* cancellation that falls into the commit is Cancelled's.
Leave(r, row) ==
    /\ rows' = [rows EXCEPT ![r] = row]
    /\ task' = [task EXCEPT ![r] = NoTask]
    /\ locks' = pruned(r)
    /\ UNCHANGED <<phase, todo, post, disk, job, stops>>

\* A step inside _fetch.
At(r, stage) == phase = "up" /\ task[r].stage = stage

\* A step that only moves the task on.
Goes(r, t) ==
    /\ task' = [task EXCEPT ![r] = t]
    /\ UNCHANGED <<phase, todo, post, rows, locks, disk, job, lost, stops>>

Failing(r, code) ==
    [NoTask EXCEPT !.stage = "fail", !.code = code, !.lock = task[r].lock]

\* set_failed of an error branch of _fetch, then return.
Fail(r) ==
    /\ At(r, "fail")
    /\ Leave(r, set_failed(rows[r], task[r].code, FALSE))
    /\ UNCHANGED lost

\* Anything _fetch does not catch (a failing row write, an httpx.ReadError, an
\* OSError of the sidecar) reaches the last except clause of _run; a partial
\* download stays where it is.
Raises(r) ==
    /\ phase = "up" /\ task[r].stage \in FetchStages
    /\ Goes(r, [NoTask EXCEPT !.stage = "internal", !.lock = task[r].lock])

Internal(r) ==
    /\ At(r, "internal")
    /\ \/ /\ Leave(r, set_failed(rows[r], "internal", FALSE))
          /\ UNCHANGED lost
       \* ... and that write raises as well: the task is over, the row is not.
       \/ /\ Cardinality(lost) < MaxFaults
          /\ Leave(r, rows[r])
          /\ lost' = lost \cup {r}

-----------------------------------------------------------------------------
(* _fetch.                                                                 *)

Begin(r) ==
    /\ At(r, "begin")
    /\ rows' = [rows EXCEPT ![r] = set_status(@, "downloading")]
    /\ task' = [task EXCEPT ![r].stage = "meta"]
    /\ UNCHANGED <<phase, todo, post, locks, disk, job, lost, stops>>

\* _fetch_metadata raises after its retries: a status or the transport.
MetadataFails(r) == Goes(r, Failing(r, "refused"))

\* _pick_primary_file raises: no usable primary file in the answer.
NoPrimaryFile(r) == Goes(r, Failing(r, "refused"))

\* The metadata, the size cap and set_total_bytes.
Metadata(r) ==
    /\ At(r, "meta")
    /\ \/ MetadataFails(r)
       \/ NoPrimaryFile(r)
       \/ \E size \in Claims :
              IF size > FileMax THEN Goes(r, Failing(r, "refused"))
              ELSE Goes(r, [task[r] EXCEPT !.stage = "place", !.claimed = size])

\* _directory_size: every .safetensors under civitai/, no partial download.
DirectorySize == MapThenSumSet(LAMBDA v : Size[v], {v \in Versions : Present(v)})

\* evict_for: how much has to go before 2 x the stated size fits.
required(size) == 2 * size - (DirMax - DirectorySize)

\* The destination exists: backfill a missing sidecar and go straight to done.
\* Otherwise evict, but only when the disk is short of 2 x the stated size
\* (low: what shutil.disk_usage says, anybody may fill the disk).
Place(r) ==
    LET v == rows[r].version
        need == required(task[r].claimed) IN
    /\ At(r, "place")
    /\ \/ /\ Present(v)
          /\ disk' = [disk EXCEPT ![v].sidecar = IF @ = "none" THEN "civitai" ELSE @]
          /\ task' = [task EXCEPT ![r].stage = "name", ![r].claimed = 0]
          /\ UNCHANGED <<phase, todo, post, rows, locks, job, lost, stops>>
       \/ /\ ~ Present(v)
          /\ \E low \in BOOLEAN :
                /\ low => task[r].claimed > 0
                /\ Goes(r, IF low /\ need > 0
                           THEN [task[r] EXCEPT !.stage = "scan", !.required = need]
                           ELSE [task[r] EXCEPT !.stage = "open"])

\* _non_terminal_lora_names: names in the top-level "loras" of the input_json
\* of queued and running jobs.  An image job stores its request as it came; a
\* video job stores an envelope, with the request under "payload".
NonTerminalLoraNames ==
    {job[j].lora : j \in {i \in GenJobs : /\ job[i].stage \in {"active", "running"}
                                          /\ Kind[i] = "image"}}

\* Mutant: a file without a sidecar is a candidate too.
Evictable_AnyFile(v) ==
    /\ Present(v)
    /\ v \notin NonTerminalLoraNames
    /\ disk[v].used # "recent"

\* Candidates: a sidecar written by the fetcher, no active job, not used in
\* the last days.
Evictable(v) ==
    /\ Present(v)
    /\ disk[v].sidecar = "civitai"
    /\ v \notin NonTerminalLoraNames
    /\ disk[v].used # "recent"

Scan(r) ==
    /\ At(r, "scan")
    /\ Goes(r, [task[r] EXCEPT !.stage = "evict", !.reclaimed = 0,
                    !.cands = {<<disk[v].used, v>> : v \in {u \in Versions : Evictable(u)}}])

\* Oldest first; never used sorts before any use.
Oldest(cands) ==
    {c \in cands : c[1] = "never" \/ \A d \in cands : d[1] = "old"}

\* Next candidate with the jobs read again, or the end of the loop.
Recheck(r) ==
    LET t == task[r] IN
    /\ At(r, "evict")
    /\ \/ /\ t.reclaimed >= t.required
          /\ Goes(r, [t EXCEPT !.stage = "open", !.cands = {}])
       \/ /\ t.reclaimed < t.required /\ t.cands = {}
          /\ Goes(r, Failing(r, "refused"))
       \/ /\ t.reclaimed < t.required
          /\ \E c \in Oldest(t.cands) :
                IF c[2] \in NonTerminalLoraNames
                THEN Goes(r, [t EXCEPT !.cands = @ \ {c}])
                ELSE Goes(r, [t EXCEPT !.stage = "unlink", !.cands = @ \ {c}, !.victim = c[2]])

\* Mutant: a failed unlink counts as reclaimed space.
Unlink_CountsFailures(r) ==
    LET v == task[r].victim IN
    /\ At(r, "unlink")
    /\ Goes(r, [task[r] EXCEPT !.stage = "evict", !.victim = None,
                               !.reclaimed = @ + Size[v]])

\* unlink of the file (which may fail, or find it gone), then of its sidecar
\* (which may fail alone).
Unlink(r) ==
    LET v == task[r].victim IN
    /\ At(r, "unlink")
    /\ \/ /\ Present(v)
          /\ \E left \in BOOLEAN :
                disk' = [disk EXCEPT ![v].file = "absent",
                                     ![v].sidecar = IF left THEN @ ELSE "none",
                                     ![v].used = IF left THEN @ ELSE "never"]
          /\ task' = [task EXCEPT ![r].stage = "evict", ![r].victim = None,
                                  ![r].reclaimed = @ + Size[v]]
          /\ UNCHANGED <<phase, todo, post, rows, locks, job, lost, stops>>
       \/ Goes(r, [task[r] EXCEPT !.stage = "evict", !.victim = None])

\* _validate_download_url raises: a url outside the allowlist.
UnsafeUrl(r) == Goes(r, Failing(r, "refused"))

\* The url is checked, then the stream opens the .tmp file.
Open(r) ==
    /\ At(r, "open")
    /\ \/ UnsafeUrl(r)
       \/ /\ disk' = [disk EXCEPT ![rows[r].version].tmp = "partial"]
          /\ task' = [task EXCEPT ![r] = [NoTask EXCEPT !.stage = "stream", !.lock = task[r].lock]]
          /\ UNCHANGED <<phase, todo, post, rows, locks, job, lost, stops>>

\* _unlink_quiet: the removal of the .tmp file of a version may fail silently.
unlink_quiet(v) == {disk, [disk EXCEPT ![v].tmp = "absent"]}

\* _stream_download ends: the body is complete, with the right hash or not, or
\* one of the except clauses unlinks the partial file (an OSError other than a
\* full disk is recorded as internal).
Stream(r) ==
    /\ At(r, "stream")
    /\ \/ \E c \in {"good", "bad"} :
              /\ disk' = [disk EXCEPT ![rows[r].version].tmp = c]
              /\ task' = [task EXCEPT ![r].stage = "verify"]
       \/ \E code \in {"refused", "internal"} :
              /\ disk' \in unlink_quiet(rows[r].version)
              /\ task' = [task EXCEPT ![r] = Failing(r, code)]
    /\ UNCHANGED <<phase, todo, post, rows, locks, job, lost, stops>>

\* Mutant: the hash is not compared.
Verify_Unchecked(r) ==
    /\ At(r, "verify")
    /\ rows' = [rows EXCEPT ![r] = set_status(@, "verifying")]
    /\ task' = [task EXCEPT ![r].stage = "sidecar"]
    /\ UNCHANGED <<phase, todo, post, locks, disk, job, lost, stops>>

\* set_status(verifying), then the comparison of the hashes.
Verify(r) ==
    LET v == rows[r].version IN
    /\ At(r, "verify")
    /\ rows' = [rows EXCEPT ![r] = set_status(@, "verifying")]
    /\ \/ /\ disk[v].tmp = "good"
          /\ task' = [task EXCEPT ![r].stage = "sidecar"]
          /\ UNCHANGED disk
       \/ /\ disk[v].tmp # "good"
          /\ disk' \in unlink_quiet(v)
          /\ task' = [task EXCEPT ![r] = Failing(r, "refused")]
    /\ UNCHANGED <<phase, todo, post, locks, job, lost, stops>>

\* _write_sidecar_atomic: a fresh sidecar, never used.
Sidecar(r) ==
    /\ At(r, "sidecar")
    /\ disk' = [disk EXCEPT ![rows[r].version].sidecar = "civitai",
                            ![rows[r].version].used = "never"]
    /\ task' = [task EXCEPT ![r].stage = "replace"]
    /\ UNCHANGED <<phase, todo, post, rows, locks, job, lost, stops>>

\* os.replace(tmp, dest).
Replace(r) ==
    /\ At(r, "replace")
    /\ disk' = [disk EXCEPT ![rows[r].version].file = disk[rows[r].version].tmp,
                            ![rows[r].version].tmp = "absent"]
    /\ task' = [task EXCEPT ![r].stage = "name"]
    /\ UNCHANGED <<phase, todo, post, rows, locks, job, lost, stops>>

\* Mutant: a fetch that found its file goes to done at once.
NameDest_SkipsVerifying(r) ==
    /\ At(r, "name")
    /\ rows' = [rows EXCEPT ![r] = set_dest_name(@)]
    /\ task' = [task EXCEPT ![r].stage = "finish"]
    /\ UNCHANGED <<phase, todo, post, locks, disk, job, lost, stops>>

\* set_dest_name; a fetch that found its file has to pass verifying as well.
NameDest(r) ==
    /\ At(r, "name")
    /\ rows' = [rows EXCEPT ![r] = set_dest_name(@)]
    /\ task' = [task EXCEPT ![r].stage = IF rows[r].status = "downloading"
                                         THEN "again" ELSE "finish"]
    /\ UNCHANGED <<phase, todo, post, locks, disk, job, lost, stops>>

Again(r) ==
    /\ At(r, "again")
    /\ rows' = [rows EXCEPT ![r] = set_status(@, "verifying")]
    /\ task' = [task EXCEPT ![r].stage = "finish"]
    /\ UNCHANGED <<phase, todo, post, locks, disk, job, lost, stops>>

Finish(r) ==
    /\ At(r, "finish")
    /\ Leave(r, set_status(rows[r], "done"))
    /\ UNCHANGED lost

TaskStep(r) ==
    \/ TakeSlot(r) \/ TakeLock(r) \/ Begin(r) \/ Metadata(r) \/ Place(r)
    \/ Scan(r) \/ Recheck(r) \/ Unlink(r) \/ Open(r) \/ Stream(r) \/ Verify(r)
    \/ Sidecar(r) \/ Replace(r) \/ NameDest(r) \/ Again(r) \/ Finish(r)
    \/ Fail(r) \/ Internal(r)

-----------------------------------------------------------------------------
(* Generation jobs, as far as they meet the files.                         *)

Alive == phase \in {"recovering", "up"}

JobGoes(j, stage) ==
    /\ job' = [job EXCEPT ![j] = IF stage = "ended" THEN NoLora(stage)
                                ELSE [@ EXCEPT !.stage = stage]]
    /\ UNCHANGED <<phase, todo, post, rows, task, locks, lost, stops>>

\* _touch_last_used_sync: only a LoRA that has a sidecar.
touched(v) == [disk EXCEPT ![v].used = IF disk[v].sidecar = "none" THEN @ ELSE "recent"]

\* resolve_and_validate in the handler: the file has to be there.
Check(j, v) ==
    /\ phase = "up" /\ job[j].stage = "none" /\ Present(v)
    /\ job' = [job EXCEPT ![j] = [stage |-> "checked", lora |-> v]]
    /\ UNCHANGED <<phase, todo, post, rows, task, locks, disk, lost, stops>>

\* touch_last_used_async; the video handlers do not call it.
Touch(j) ==
    /\ phase = "up" /\ job[j].stage = "checked"
    /\ disk' = IF Kind[j] = "image" THEN touched(job[j].lora) ELSE disk
    /\ JobGoes(j, "touched")

\* create_queued.
Accept(j) ==
    /\ phase = "up" /\ job[j].stage = "touched"
    /\ JobGoes(j, "active")
    /\ UNCHANGED disk

\* The worker validates again and touches the LoRA; a missing file ends the job.
Work(j) ==
    /\ Alive /\ job[j].stage = "active"
    /\ \/ /\ Present(job[j].lora)
          /\ disk' = touched(job[j].lora)
          /\ JobGoes(j, "running")
       \/ /\ ~ Present(job[j].lora)
          /\ JobGoes(j, "ended")
          /\ UNCHANGED disk

EndJob(j) ==
    /\ Alive /\ job[j].stage = "running"
    /\ JobGoes(j, "ended")
    /\ UNCHANGED disk

\* recent_use_days pass without a use.
Age(v) ==
    /\ disk[v].used = "recent"
    /\ disk' = [disk EXCEPT ![v].used = "old"]
    /\ UNCHANGED <<phase, todo, post, rows, task, locks, job, lost, stops>>

-----------------------------------------------------------------------------
(* Shutdown, death and recovery.                                           *)

\* What a stop leaves of the jobs: rows that were running are failed by
\* recover_jobs, requests without a row are gone.
stopped(j) == IF job[j].stage \in {"none", "active"} THEN job[j] ELSE NoLora("ended")

unanswered(p) == p.stage \in {"insert", "refind"}

\* close(): the server has answered its last request; every task is cancelled.
Shutdown ==
    /\ phase = "up" /\ stops < MaxStops
    /\ \A r \in Requests : ~ unanswered(post[r])
    /\ phase' = "stopping"
    /\ stops' = stops + 1
    /\ UNCHANGED <<todo, post, rows, task, locks, disk, job, lost>>

\* The row as the write that a stage awaits leaves it.
written(r) ==
    LET stage == task[r].stage
        row == rows[r] IN
    CASE stage = "begin" -> set_status(row, "downloading")
      [] stage \in {"verify", "again"} -> set_status(row, "verifying")
      [] stage = "name" -> set_dest_name(row)
      [] stage = "finish" -> set_status(row, "done")
      [] stage = "fail" -> set_failed(row, task[r].code, FALSE)
      [] stage = "internal" -> set_failed(row, "internal", FALSE)
      [] OTHER -> row

\* set_failed of the CancelledError handler: on a terminal row it raises
\* InvalidTransitionError, which close() swallows.
handed_over(row) ==
    IF "failed" \in _ALLOWED_TRANSITIONS[row.status]
    THEN set_failed(row, "service_restarted", TRUE) ELSE row

\* CancelledError in a task.  A write it awaits is committed all the same when
\* its commit has been asked for, and rolled back otherwise.  Then the handler
\* around _fetch hands the row over; elsewhere nothing more is written.
Cancelled(r) ==
    /\ phase = "stopping" /\ task[r].stage # "none"
    /\ \E row \in {rows[r], written(r)} :
          rows' = [rows EXCEPT ![r] = IF task[r].stage \in FetchStages
                                      THEN handed_over(row) ELSE row]
    /\ task' = [task EXCEPT ![r] = NoTask]
    /\ locks' = IF task[r].stage = "queued" THEN locks ELSE pruned(r)
    /\ UNCHANGED <<phase, todo, post, disk, job, lost, stops>>

\* The process is gone: tables and files stay.
Down ==
    /\ phase' = "down"
    /\ todo' = {}
    /\ post' = [r \in Requests |-> IF unanswered(post[r])
                                   THEN [post[r] EXCEPT !.stage = "answered"] ELSE post[r]]
    /\ task' = [r \in Requests |-> NoTask]
    /\ locks' = [v \in Versions |-> None]
    /\ job' = [j \in GenJobs |-> stopped(j)]
    /\ lost' = {}
    /\ UNCHANGED <<rows, disk>>

Stopped ==
    /\ phase = "stopping" /\ \A r \in Requests : task[r].stage = "none"
    /\ Down
    /\ UNCHANGED stops

Crash ==
    /\ phase # "down" /\ stops < MaxStops
    /\ Down
    /\ stops' = stops + 1

\* Mutant: only the rows whose download had begun are flipped.
Boot_DownloadingOnly ==
    /\ phase = "down"
    /\ phase' = "recovering"
    /\ todo' = {r \in Requests : rows[r].status = "downloading"}
    /\ UNCHANGED <<post, rows, task, locks, disk, job, lost, stops>>

\* Start-up reaches recover_fetches: scan_non_terminal.
Boot ==
    /\ phase = "down"
    /\ phase' = "recovering"
    /\ todo' = {r \in Requests : rows[r].status \in _NON_TERMINAL}
    /\ UNCHANGED <<post, rows, task, locks, disk, job, lost, stops>>

RecoverRow(r) ==
    /\ phase = "recovering" /\ r \in todo
    /\ rows' = [rows EXCEPT ![r] = set_failed(@, "service_restarted", TRUE)]
    /\ todo' = todo \ {r}
    /\ UNCHANGED <<phase, post, task, locks, disk, job, lost, stops>>

\* The sweep of *.safetensors.tmp, any of which may stay, ends recovery and the
\* server opens.
Serve ==
    /\ phase = "recovering" /\ todo = {}
    /\ \E swept \in SUBSET Versions :
          disk' = [v \in Versions |-> IF v \in swept THEN [disk[v] EXCEPT !.tmp = "absent"]
                                      ELSE disk[v]]
    /\ phase' = "up"
    /\ UNCHANGED <<todo, post, rows, task, locks, job, lost, stops>>

-----------------------------------------------------------------------------

\* Nothing in flight: the idle service.
Quiescent ==
    /\ phase = "up"
    /\ \A r \in Requests : task[r].stage = "none" /\ ~ unanswered(post[r])
    /\ UNCHANGED vars

Handler(r) == Insert(r) \/ Refind(r)

Lifespan == Boot \/ (\E r \in Requests : RecoverRow(r)) \/ Serve

Stopping == (\E r \in Requests : Cancelled(r)) \/ Stopped

Next ==
    \/ \E r \in Requests : \/ \E v \in Versions : Post(r, v)
                            \/ Handler(r) \/ TaskStep(r) \/ Raises(r)
                            \/ RowReadFails(r)
    \/ \E j \in GenJobs : \/ \E v \in Versions : Check(j, v)
                           \/ Touch(j) \/ Accept(j) \/ Work(j) \/ EndJob(j)
    \/ \E v \in Versions : Age(v)
    \/ Shutdown \/ Stopping \/ Crash \/ Lifespan \/ Quiescent

Spec == Init /\ [][Next]_vars

\* The event loop runs every task that is ready, every request to Civitai has
\* a timeout and a deadline, and the container is restarted.
Fairness ==
    /\ \A r \in Requests : WF_vars(TaskStep(r))
    /\ WF_vars(Lifespan) /\ WF_vars(Stopping)

FairSpec == Spec /\ Fairness

-----------------------------------------------------------------------------
(* Properties.                                                             *)

Live(r) == task[r].stage # "none"

\* Two tasks never work on one version, hence on one .tmp and one destination,
\* however the POSTs, the ends of earlier fetches and restarts interleave
\* (post_fetch, _run).  It is the table that guarantees it, not the lock: the
\* row of a task stays active until the task's last write.
OneTaskPerVersion ==
    \A q, r \in Requests :
        q # r /\ Live(q) /\ Live(r) => rows[q].version # rows[r].version

\* An id from a 202, deduped or not, can be polled: the row is of the version
\* asked for and is terminal, or a task works on it, or recovery is about to
\* flip it; only a task that could not read its row or make its last-resort
\* write leaves it behind (post_fetch, _run, recover_fetches).
AnswersAreServed ==
    \A r \in Requests : post[r].reply # None =>
        LET q == post[r].reply IN
        /\ rows[q].version = post[r].version
        /\ phase = "up" =>
              rows[q].status \in {"done", "failed"} \/ Live(q) \/ q \in lost

\* The variables keep their types and every file is accounted for: what the fetcher
\* installs is a complete download with the hash of the metadata, whatever stops or
\* fails on the way, and while the service is up a partial download belongs to a
\* running fetch of the version or was left by one that did not end done, be it
\* that nobody tried to remove it or that the removal failed (_fetch steps 6 to 8,
\* _unlink_quiet, recover_fetches).
FilesAccounted ==
    /\ TypeOK
    /\ \A v \in Versions : disk[v].file \in {"absent", "drop", "good"}
    /\ \A v \in Versions : disk[v].tmp # "absent" /\ phase = "up" =>
          \E r \in Requests :
              /\ rows[r].version = v
              /\ Live(r) \/ r \in lost \/ rows[r].status = "failed"

\* A fetch that evicted starts its download only when twice the stated size
\* fits under LORA_DIR_MAX_SIZE_GB, candidates that were skipped or could not
\* be unlinked notwithstanding (evict_for).
RoomAfterEviction ==
    \A r \in Requests : task[r].stage = "open" /\ task[r].required > 0 =>
        DirectorySize + 2 * task[r].claimed <= DirMax

\* Every status a writer finds may go to the one it writes, be it the task, its
\* cancellation or recovery, and a terminal row is never written again; but one
\* writer may be refused (fetches.py, _assert_allowed): when a shutdown cancels a
\* task in the commit of its last write, the handler's set_failed meets
\* InvalidTransitionError and the row keeps the verdict it has.  Every other task
\* cancelled inside _fetch leaves its row handed over.
TransitionsAllowed ==
    [][\A r \in Requests :
          /\ rows'[r] # rows[r] /\ rows[r].status # "none" =>
                \/ rows'[r].status \in _ALLOWED_TRANSITIONS[rows[r].status]
                \/ /\ rows'[r].status = rows[r].status
                   /\ rows[r].status \in _NON_TERMINAL
          /\ Cancelled(r) /\ task[r].stage \in FetchStages =>
                \/ rows'[r].status = "failed" /\ rows'[r].handover
                \/ /\ task[r].stage \in {"finish", "fail"}
                   /\ rows'[r].status \in {"done", "failed"}]_vars

\* A row becomes done only while its file and a sidecar are there under the
\* name it publishes (_fetch): no eviction takes the file in between.
DoneMeansInstalled ==
    [][\A r \in Requests : rows[r].status # "done" /\ rows'[r].status = "done" =>
          /\ rows'[r].dest_name
          /\ disk'[rows[r].version].file # "absent"
          /\ disk'[rows[r].version].sidecar # "none"]_vars

\* A file an operator put there goes only after a fetch of its version has
\* attached a sidecar to it (evict_for, gamma protection).
HandDropsSurvive ==
    [][\A v \in Versions : disk[v].file = "drop" /\ disk'[v].file # "drop" =>
          \E r \in Requests : rows[r].version = v /\ disk[v].sidecar = "civitai"]_vars

\* Every fetch that has a row ends, also across restarts, unless its task could
\* not read the row or make its last-resort write (_run, recover_fetches).
EveryFetchSettles ==
    \A r \in Requests :
        rows[r].status \in _NON_TERMINAL ~> rows[r].status \in {"done", "failed"} \/ r \in lost

\* eviction.py:9, "LoRA name referenced by `input_json` of any non-terminal job":
\* no eviction removes a LoRA that a queued or running job names.
ActiveJobsKeepLoras ==
    [][\A v \in Versions : Present(v) /\ disk'[v].file = "absent" =>
          \A j \in GenJobs : job[j].lora = v => job[j].stage \notin {"active", "running"}]_vars
=============================================================================
