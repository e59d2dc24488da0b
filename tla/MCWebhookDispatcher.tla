------------------------- MODULE MCWebhookDispatcher -------------------------
(* Instances of WebhookDispatcher for TLC.                                 *)
EXTENDS WebhookDispatcher, TLC

\* SCHEDULE_S of retry.py.
FullSchedule == <<15, 60, 300, 900, 3600>>

\* Its first three entries: a shorter life for two jobs at a time.
ShortSchedule == <<15, 60, 300>>

JobSymmetry == Permutations(JobIds)
=============================================================================
