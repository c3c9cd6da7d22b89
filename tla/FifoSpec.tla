------------------------------ MODULE FifoSpec ------------------------------
(***************************************************************************)
(* What the two queues of src/util/thread.h promise to the threads of a    *)
(* WorkerPool: items are taken exactly once, in the order they were put.   *)
(* JobQueue and ResultQueue are shown to implement it; NetServer uses its  *)
(* grain, one step per put and one per take.                               *)
(***************************************************************************)
EXTENDS Sequences

CONSTANT Values        \* what can be put

VARIABLES queue,       \* the items put and not yet taken
          taken        \* all items taken so far, in the order of the takes

vars == <<queue, taken>>

Init == queue = <<>> /\ taken = <<>>

Put(v) == /\ queue' = Append(queue, v)
          /\ UNCHANGED taken

Take == /\ queue # <<>>
        /\ taken' = Append(taken, Head(queue))
        /\ queue' = Tail(queue)

Next == (\E v \in Values : Put(v)) \/ Take

Spec == Init /\ [][Next]_vars
=============================================================================
