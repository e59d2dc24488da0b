--------------------------- MODULE MCStoredObjects ---------------------------
(* An instance of StoredObjects for TLC. *)
EXTENDS StoredObjects, TLC
=============================================================================
