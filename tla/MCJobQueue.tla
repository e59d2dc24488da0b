----------------------------- MODULE MCJobQueue -----------------------------
(* Instances of JobQueue for TLC: which requests the clients send.         *)
EXTENDS JobQueue, TLC

Req(mode, webhook, kind, model, endpoint) ==
    [mode |-> mode, webhook |-> webhook, kind |-> kind, model |-> model,
     endpoint |-> endpoint]

\* The two ways through the JSON endpoints, both video pipelines, two models.
MixedRequests ==
    {Req("sync", TRUE, "wan", "m1", "json"), Req("async", TRUE, "ltxv", "m2", "json")}

\* One job of each: a client that waits and one that was told 202 share the
\* queue, and their different models make a swap necessary.
MixedInit ==
    /\ Init
    /\ {request[j] : j \in JobIds} = Requests

MixedSpec == MixedInit /\ [][Next]_vars

\* Images from the binary endpoint, which reads the row back.
SyncRequests == {Req("sync", TRUE, "image", "m1", "binary")}

\* Jobs are interchangeable, and so are workers.
Symmetry == Permutations(JobIds) \cup Permutations(Workers)
=============================================================================
