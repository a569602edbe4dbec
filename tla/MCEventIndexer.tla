--------------------------- MODULE MCEventIndexer ---------------------------
(* Small instances of EventIndexer for TLC. *)
EXTENDS EventIndexer
=============================================================================
