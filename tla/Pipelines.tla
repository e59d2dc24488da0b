------------------------------ MODULE Pipelines ------------------------------
(***************************************************************************)
(* How the three pipelines of QueueWorker can end early                    *)
(* (_run_pipeline for images, _run_ltxv_pipeline and _run_video_pipeline   *)
(* for videos, app/queue/worker.py).                                       *)
(*                                                                         *)
(* The content of a job (prompt, graph, LoRAs, media bytes) decides only   *)
(* WHICH of these endings happens, so a stage of a pipeline is the set of  *)
(* its endings.  An ending says what the code writes and what it raises:   *)
(*   code  the error_code given to set_failed before the raise, "none" if  *)
(*         the raise leaves the pipeline without any write to the row;     *)
(*   exc   the class of the exception that reaches _process_one:           *)
(*         "unreachable", "timeout", "node" (the BackendErrors), "storage" *)
(*         (StorageError), or "other" for everything else.                 *)
(***************************************************************************)
EXTENDS Jobs

Exceptions == {"unreachable", "timeout", "node", "storage", "other"}

Endings == [code : ErrorCodes \cup {"none"}, exc : Exceptions]

Ending(code, exc) == [code |-> code, exc |-> exc]

PipelineKinds == {"image", "ltxv", "wan"}

-----------------------------------------------------------------------------
(* Stage 1: decode and re-validate input_json, build the graph, upload the *)
(* init image.  Nothing has been submitted; the row is still 'queued'.     *)

\* upload_image: transport error, or an answer without a name, which raises a
\* ComfyNodeError that the pipelines' "except ComfyUnreachableError" lets by.
UploadImageFailures ==
    {Ending("comfy_unreachable", "unreachable"), Ending("none", "node")}

\* WorkflowValidationError of the inject_* calls is not caught: "other".
ImagePrepareFailures ==
    {Ending("validation_error", "node"), Ending("none", "other")}
        \cup UploadImageFailures

\* A pydantic ValidationError is not caught here: "other".
LtxvPrepareFailures ==
    {Ending("validation_error", "node"), Ending("comfy_error", "node"),
     Ending("none", "other")}
        \cup UploadImageFailures

\* Both validation errors are caught; a missing anchor after the inject_*
\* block (find_anchor's KeyError) is not: "other".
WanPrepareFailures ==
    {Ending("validation_error", "node"), Ending("comfy_error", "node"),
     Ending("none", "other")}
        \cup UploadImageFailures

PrepareFailures(kind) ==
    CASE kind = "image" -> ImagePrepareFailures
      [] kind = "ltxv" -> LtxvPrepareFailures
      [] kind = "wan" -> WanPrepareFailures

-----------------------------------------------------------------------------
(* Stage 2: the model swap (only when the model changes) and POST /prompt. *)

\* unload_models raises ComfyUnreachableError outside any try block; an
\* unverified unload without headroom refuses the job.  An answer of /system_stats that
\* is no JSON raises past both.
SwapFailures ==
    {Ending("none", "unreachable"), Ending("vram_budget_exceeded", "node"),
     Ending("none", "other")}

\* Both BackendErrors are recorded; a good answer that is no JSON raises past them.
SubmitFailures ==
    {Ending("comfy_unreachable", "unreachable"), Ending("comfy_error", "node"),
     Ending("none", "other")}

-----------------------------------------------------------------------------
(* Stage 3: wait for the prompt, fetch and check its outputs, upload them. *)
(* The row is 'running'.                                                   *)

\* wait_for_completion: only timeout and unreachable are caught; the
\* ComfyNodeError of an errored prompt is not.
WaitFailures ==
    {Ending("comfy_timeout", "timeout"), Ending("comfy_unreachable", "unreachable"),
     Ending("none", "node")}

\* fetch_outputs / fetch_media_outputs re-check the history status.
FetchFailures ==
    {Ending("comfy_unreachable", "unreachable"), Ending("none", "node")}

\* Zero outputs, not a PNG, failed transparency, no media support.
OutputFailures == {Ending("comfy_error", "node")}

\* A StorageError is recorded; any other client error is not.
StoreFailures == {Ending("storage_error", "storage"), Ending("none", "other")}

ImageExecuteFailures ==
    WaitFailures \cup FetchFailures \cup OutputFailures \cup StoreFailures

LtxvExecuteFailures ==
    WaitFailures \cup FetchFailures \cup OutputFailures \cup StoreFailures

WanExecuteFailures ==
    WaitFailures \cup FetchFailures \cup OutputFailures \cup StoreFailures

ExecuteFailures(kind) ==
    CASE kind = "image" -> ImageExecuteFailures
      [] kind = "ltxv" -> LtxvExecuteFailures
      [] kind = "wan" -> WanExecuteFailures

=============================================================================
