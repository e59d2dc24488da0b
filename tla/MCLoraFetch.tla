----------------------------- MODULE MCLoraFetch -----------------------------
(* Instances of LoraFetch for TLC.                                         *)
EXTENDS LoraFetch, TLC

UnitSize == [v \in Versions |-> 1]

ImageJobs == [j \in GenJobs |-> "image"]
VideoJobs == [j \in GenJobs |-> "video"]

FetchSymmetry == Permutations(Requests) \cup Permutations(Versions)
=============================================================================
