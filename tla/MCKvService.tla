---------------------------- MODULE MCKvService ----------------------------
(* TLC instances of KvService.                                              *)
EXTENDS KvService, TLC

KeyAndValueSymmetry == Permutations(Values) \cup Permutations(Keys \ {EmptyKey})
=============================================================================
