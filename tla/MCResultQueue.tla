---------------------------- MODULE MCResultQueue ----------------------------
(* TLC instance of ResultQueue: three workers, and a pipe that fills up.    *)
EXTENDS ResultQueue, TLC
=============================================================================
