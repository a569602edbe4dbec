--------------------------- MODULE MCWorkerProcess ---------------------------
(* A small instance of WorkerProcess for TLC. *)
EXTENDS WorkerProcess
=============================================================================
