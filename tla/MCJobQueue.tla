----------------------------- MODULE MCJobQueue -----------------------------
(* TLC instance of JobQueue: the main thread and two workers.               *)
EXTENDS JobQueue, TLC
=============================================================================
