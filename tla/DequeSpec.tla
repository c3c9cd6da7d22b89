----------------------------- MODULE DequeSpec -----------------------------
(***************************************************************************)
(* What the queue commands of the database promise: every name holds a     *)
(* double-ended queue of items; a push or a pop acts on one end of one     *)
(* queue, atomically, or reports an error and changes nothing.  A restart  *)
(* brings back the queues as they were, or (after a machine crash, since   *)
(* writes are not synced) as they were at some earlier sync, always at a   *)
(* boundary between two operations.                                        *)
(*                                                                         *)
(* This is the abstract specification of GEMINIDBImpl::_qpush and _qpop;   *)
(* QueueStore and QueueService are shown to implement it.                  *)
(***************************************************************************)
EXTENDS Integers, Sequences

CONSTANTS Names,     \* the queue names
          Items,     \* the values pushed
          NotFound,  \* "no item"
          FrontEnd, BackEnd   \* the two ends of a queue

VARIABLES queue,     \* the items of each queue, front first
          saved,     \* the queues a machine crash falls back to
          ret        \* the last operation and what it returned

vars == <<queue, saved, ret>>

(* A result: the operation, its queue, end and item, and the return value:  *)
(* for a push the new size, for a pop 1 or 0 (empty), for an error -1.      *)
Result(op, n, e, item, val) ==
    [op |-> op, name |-> n, end |-> e, item |-> item, val |-> val]

NoResult == [op |-> "none"]

Pushed(q, e, item) == IF e = FrontEnd THEN <<item>> \o q ELSE Append(q, item)
Popped(q, e) == IF e = FrontEnd THEN Tail(q) ELSE SubSeq(q, 1, Len(q) - 1)
Peeked(q, e) == IF e = FrontEnd THEN Head(q) ELSE q[Len(q)]

Init == /\ queue = [n \in Names |-> <<>>]
        /\ saved = queue
        /\ ret = NoResult

Push(n, e, item) ==
    /\ queue' = [queue EXCEPT ![n] = Pushed(@, e, item)]
    /\ ret' = Result("push", n, e, item, Len(queue[n]) + 1)
    /\ UNCHANGED saved

Pop(n, e) ==
    /\ queue[n] # <<>>
    /\ queue' = [queue EXCEPT ![n] = Popped(@, e)]
    /\ ret' = Result("pop", n, e, Peeked(queue[n], e), 1)
    /\ UNCHANGED saved

PopEmpty(n, e) ==
    /\ queue[n] = <<>>
    /\ ret' = Result("pop", n, e, NotFound, 0)
    /\ UNCHANGED <<queue, saved>>

(* The range of positions is exhausted, or the storage engine failed.      *)
Refuse(op, n, e, item) ==
    /\ ret' = Result(op, n, e, item, -1)
    /\ UNCHANGED <<queue, saved>>

Sync == /\ saved' = queue
        /\ UNCHANGED <<queue, ret>>

Restart == /\ queue' \in {queue, saved}
           /\ saved' = queue'
           /\ ret' = NoResult

Next == \/ \E n \in Names, e \in {FrontEnd, BackEnd} :
              \/ \E item \in Items : Push(n, e, item) \/ Refuse("push", n, e, item)
              \/ Pop(n, e)
              \/ PopEmpty(n, e)
              \/ Refuse("pop", n, e, NotFound)
        \/ Sync
        \/ Restart

Spec == Init /\ [][Next]_vars
=============================================================================
