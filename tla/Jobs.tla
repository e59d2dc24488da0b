-------------------------------- MODULE Jobs --------------------------------
(***************************************************************************)
(* The jobs table (app/queue/jobs.py) as operators on one row.             *)
(*                                                                         *)
(* Every set_*/mark_* function of jobs.py is one UPDATE in one transaction *)
(* of the store (store.write commits or rolls back as a whole), so each is *)
(* an operator from the old row to the new one.  The id, the model name,   *)
(* input_json, prompt ids, headers and messages are data no property looks *)
(* at; updated_at only orders scans.                                       *)
(***************************************************************************)
EXTENDS Naturals

Statuses == {"queued", "running", "completed", "failed", "abandoned"}
Terminal == {"completed", "failed", "abandoned"}
Modes == {"sync", "async"}

\* error_code, with the validation family (exc.error_code) as one code.
ErrorCodes ==
    {"validation_error", "comfy_unreachable", "comfy_error", "comfy_timeout",
     "vram_budget_exceeded", "storage_error", "internal", "service_restarted"}

\* webhook_delivery_status, "null" being the SQL NULL of a row without a url.
DeliveryStatuses == {"null", "pending", "succeeded", "failed", "suppressed"}

\* _ALLOWED_TRANSITIONS: what _assert_allowed lets through.
AllowedTransitions ==
    {<<"queued", "running">>, <<"queued", "failed">>, <<"queued", "abandoned">>,
     <<"running", "completed">>, <<"running", "failed">>,
     <<"running", "abandoned">>}

assert_allowed(current, target) == <<current, target>> \in AllowedTransitions

\* A row; status "none" stands for a row that has not been inserted.
Row == [status : Statuses \cup {"none"},
        error_code : ErrorCodes \cup {"none"},
        mode : Modes,
        webhook_url : BOOLEAN,
        webhook_delivery_status : DeliveryStatuses,
        webhook_handover : BOOLEAN,
        initial_response_delivered : BOOLEAN,
        response_delivered : BOOLEAN,
        fetched : BOOLEAN,
        created_at : Nat]

NoRow == [status |-> "none", error_code |-> "none", mode |-> "sync",
          webhook_url |-> FALSE, webhook_delivery_status |-> "null",
          webhook_handover |-> FALSE, initial_response_delivered |-> FALSE,
          response_delivered |-> FALSE, fetched |-> FALSE, created_at |-> 0]

\* count_active and scan_non_terminal: status IN ('queued', 'running').
IsActive(row) == row.status \in {"queued", "running"}

IsTerminal(row) == row.status \in Terminal

create_queued(mode, hasWebhook, now) ==
    [NoRow EXCEPT !.status = "queued",
                  !.mode = mode,
                  !.webhook_url = hasWebhook,
                  !.webhook_delivery_status = IF hasWebhook THEN "pending" ELSE "null",
                  !.created_at = now]

set_running(row) == [row EXCEPT !.status = "running"]

set_completed(row) == [row EXCEPT !.status = "completed"]

\* Mutant: the UPDATE also puts the barrier back to its default.
set_failed_shuts_barrier(row, code) ==
    [row EXCEPT !.status = "failed", !.error_code = code, !.webhook_handover = FALSE]

set_failed(row, code) == [row EXCEPT !.status = "failed", !.error_code = code]

set_fetched(row) == [row EXCEPT !.fetched = TRUE]

\* UPDATE ... WHERE mode='async': no effect on a sync row.
mark_initial_response_delivered(row) ==
    IF row.mode = "async"
    THEN [row EXCEPT !.initial_response_delivered = TRUE, !.webhook_handover = TRUE]
    ELSE row

\* UPDATE ... WHERE mode='sync': no effect once the watcher flipped the row.
mark_response_delivered(row) ==
    IF row.mode = "sync"
    THEN [row EXCEPT !.response_delivered = TRUE, !.webhook_handover = TRUE]
    ELSE row

mark_async_with_handover(row) ==
    [row EXCEPT !.mode = "async", !.webhook_handover = TRUE]

mark_handover(row) == [row EXCEPT !.webhook_handover = TRUE]

\* scan_webhook_candidates: the rows a dispatcher tick works on.
IsWebhookCandidate(row) ==
    /\ row.webhook_url
    /\ row.webhook_handover
    /\ IsTerminal(row)
    /\ row.webhook_delivery_status \in {"pending", "null"}

set_webhook_delivery_status(row, status) ==
    [row EXCEPT !.webhook_delivery_status = status]
=============================================================================
