---------------------------- MODULE MCNetServer ----------------------------
(* TLC instances of NetServer.                                              *)
EXTENDS NetServer, TLC

ConnAndReaderSymmetry == Permutations(Conns) \cup Permutations(Readers)
=============================================================================
