--------------------------- MODULE MCTaskBackend ---------------------------
(* Instances of TaskBackend for TLC.                                       *)
EXTENDS TaskBackend
=============================================================================
