----------------------------- MODULE MCComfyWait -----------------------------
(* An instance of ComfyWait for TLC: every job asks for a model of its own. *)
EXTENDS ComfyWait, TLC

CONSTANTS m1, m2, j1, j2

OwnModels == (j1 :> m1) @@ (j2 :> m2)
=============================================================================
