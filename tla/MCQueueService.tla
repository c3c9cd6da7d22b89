--------------------------- MODULE MCQueueService ---------------------------
(* TLC instances of QueueService.  A few positions, from 4 on, for one      *)
(* queue (the first push lands on 4), so that both ends of the range are    *)
(* near.                                                                    *)
EXTENDS QueueService, TLC

ItemSymmetry == Permutations(Items)

(* The view of the run with two writers leaves out what no step of a writer *)
(* reads any more: the history before, a position or a return value that    *)
(* will be assigned before it is used, and the readers, which never wait    *)
(* and nobody waits for.                                                    *)
Used(c) ==
    IF c = Idle THEN Idle
    ELSE [c EXCEPT !.before = <<>>,
                   !.mark = IF c.pc \in {"item", "size"} THEN @ ELSE NotFound,
                   !.val = IF c.pc \in {"size", "commit", "unlock"} THEN @ ELSE 0]

WritersView == <<db, batch, mutex, ret, [w \in Writers |-> Used(writer[w])]>>
=============================================================================
