---------------------------- MODULE MCQueueStore ----------------------------
(* TLC instance of QueueStore: one queue with five item positions (4..8, the*)
(* first push lands on 4), so that both ends of the range are reached.      *)
EXTENDS QueueStore, TLC

ItemSymmetry == Permutations(Items)
=============================================================================
