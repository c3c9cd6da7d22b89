------------------------------ MODULE MCLogger ------------------------------
(* TLC instance of Logger.                                                  *)
EXTENDS Logger, TLC

ThreadSymmetry == Permutations(Threads)
=============================================================================
