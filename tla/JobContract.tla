----------------------------- MODULE JobContract -----------------------------
(***************************************************************************)
(* What the service promises about one job, without handlers, queues,      *)
(* workers, faults or restarts.                                            *)
(*                                                                         *)
(* A job is accepted once, moves through its life once, and its outcome is *)
(* final.  The client is answered at most once; a result is announced only *)
(* after the job succeeded.  The responsibility for telling the client     *)
(* passes to the webhook dispatcher ("handed over") at most once per job,  *)
(* and "acknowledged" (no webhook needed) is decided together with it, for *)
(* a job that succeeded and whose result was announced.                    *)
(***************************************************************************)
CONSTANT JobIds

VARIABLES life, answered, handed, acknowledged

vars == <<life, answered, handed, acknowledged>>

Lives == {"none", "queued", "running", "completed", "failed"}

Init ==
    /\ life = [j \in JobIds |-> "none"]
    /\ answered = [j \in JobIds |-> "none"]
    /\ handed = [j \in JobIds |-> FALSE]
    /\ acknowledged = [j \in JobIds |-> FALSE]

Refuse(j) ==
    /\ life[j] = "none" /\ answered[j] = "none"
    /\ \E a \in {"busy", "error"} : answered' = [answered EXCEPT ![j] = a]
    /\ UNCHANGED <<life, handed, acknowledged>>

Accept(j) ==
    /\ life[j] = "none" /\ answered[j] = "none"
    /\ life' = [life EXCEPT ![j] = "queued"]
    /\ UNCHANGED <<answered, handed, acknowledged>>

Start(j) ==
    /\ life[j] = "queued"
    /\ life' = [life EXCEPT ![j] = "running"]
    /\ UNCHANGED <<answered, handed, acknowledged>>

Succeed(j) ==
    /\ life[j] = "running"
    /\ life' = [life EXCEPT ![j] = "completed"]
    /\ UNCHANGED <<answered, handed, acknowledged>>

Fail(j) ==
    /\ life[j] \in {"queued", "running"}
    /\ life' = [life EXCEPT ![j] = "failed"]
    /\ UNCHANGED <<answered, handed, acknowledged>>

\* An accepted job's client is answered once; "result" needs success.
Reply(j) ==
    /\ life[j] # "none" /\ answered[j] = "none"
    /\ \E a \in {"accepted", "error", "result"} :
          /\ a = "result" => life[j] = "completed"
          /\ answered' = [answered EXCEPT ![j] = a]
    /\ UNCHANGED <<life, handed, acknowledged>>

\* The dispatcher takes over, at any time of the job's life.
HandOver(j) ==
    /\ life[j] # "none"
    /\ handed' = [handed EXCEPT ![j] = TRUE]
    /\ UNCHANGED <<life, answered, acknowledged>>

\* The dispatcher takes over a job that needs no webhook any more.
Acknowledge(j) ==
    /\ life[j] = "completed" /\ answered[j] = "result" /\ ~handed[j]
    /\ handed' = [handed EXCEPT ![j] = TRUE]
    /\ acknowledged' = [acknowledged EXCEPT ![j] = TRUE]
    /\ UNCHANGED <<life, answered>>

Next ==
    \E j \in JobIds : \/ Refuse(j) \/ Accept(j) \/ Start(j) \/ Succeed(j) \/ Fail(j)
                      \/ Reply(j) \/ HandOver(j) \/ Acknowledge(j)

Spec == Init /\ [][Next]_vars
=============================================================================
