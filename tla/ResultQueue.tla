---------------------------- MODULE ResultQueue ----------------------------
(***************************************************************************)
(* SelectableQueue<T> of src/util/thread.h, the queue of results of a      *)
(* WorkerPool: the workers push, and the main thread pops when epoll finds *)
(* the pipe of the queue readable.  push writes a byte to the pipe while   *)
(* it holds the mutex, and blocks there when the pipe is full; pop reads a *)
(* byte first and locks afterwards.                                        *)
(*                                                                         *)
(* A link has one job at a time, so that no more results are on their way  *)
(* than there are links: MaxOutstanding.  The queue relies on it: a push   *)
(* that meets a full pipe keeps the mutex, and if the main thread has read *)
(* its byte by then, it waits for that mutex and nobody empties the pipe.  *)
(*                                                                         *)
(* The results are the numbers 1, 2, ... in the order of the pushes, at    *)
(* most MaxResults of them; the pipe holds PipeSize bytes (65536 on Linux).*)
(***************************************************************************)
EXTENDS Integers, Sequences

CONSTANTS Workers,     \* the threads that push
          Main,        \* the one thread that pops
          Nobody,      \* no thread
          PipeSize,    \* how many bytes the pipe holds
          MaxOutstanding,  \* how many results are pushed and not taken at once
          MaxResults   \* bound on the number of pushes

ASSUME ThreadAssumption == /\ Main \notin Workers
                           /\ Nobody \notin Workers \cup {Main}

ASSUME BoundAssumption == /\ PipeSize \in Nat \ {0}
                          /\ MaxOutstanding \in Nat
                          /\ MaxResults \in Nat

VARIABLES items,    \* SelectableQueue::items
          mutex,    \* the thread holding SelectableQueue::mutex, or Nobody
          pipe,     \* the number of bytes in the pipe
          pc,       \* where each thread is in push or pop
          pushed,   \* history: the number of results pushed
          taken     \* history: what the pops returned, in order

vars == <<items, mutex, pipe, pc, pushed, taken>>

Threads == Workers \cup {Main}

Init == /\ items = <<>>
        /\ mutex = Nobody
        /\ pipe = 0
        /\ pc = [t \in Threads |-> "idle"]
        /\ pushed = 0
        /\ taken = <<>>

Goto(t, label) == pc' = [pc EXCEPT ![t] = label]

Acquire(t) == mutex = Nobody /\ mutex' = t
Release == mutex' = Nobody

-----------------------------------------------------------------------------
(* SelectableQueue::push                                                    *)

(* Mutant: a link may have several jobs at once.                            *)
PushLock_unbounded(w) ==
    /\ pc[w] = "idle"
    /\ pushed < MaxResults
    /\ Acquire(w)
    /\ Goto(w, "push")
    /\ UNCHANGED <<items, pipe, pushed, taken>>

PushLock(w) ==
    /\ pc[w] = "idle"
    /\ pushed < MaxResults
    /\ pushed - Len(taken) < MaxOutstanding
    /\ Acquire(w)
    /\ Goto(w, "push")
    /\ UNCHANGED <<items, pipe, pushed, taken>>

(* Mutants of PushItem: the item overtakes the others; a byte is written    *)
(* only if the queue was empty.                                             *)
PushItem_front(w) ==
    /\ pc[w] = "push"
    /\ items' = <<pushed + 1>> \o items
    /\ pushed' = pushed + 1
    /\ Goto(w, "write")
    /\ UNCHANGED <<mutex, pipe, taken>>

PushItem_quiet(w) ==
    /\ pc[w] = "push"
    /\ items' = Append(items, pushed + 1)
    /\ pushed' = pushed + 1
    /\ Goto(w, IF items = <<>> THEN "write" ELSE "push_unlock")
    /\ UNCHANGED <<mutex, pipe, taken>>

PushItem(w) ==
    /\ pc[w] = "push"
    /\ items' = Append(items, pushed + 1)
    /\ pushed' = pushed + 1
    /\ Goto(w, "write")
    /\ UNCHANGED <<mutex, pipe, taken>>

PushWrite(w) ==
    /\ pc[w] = "write"
    /\ pipe < PipeSize
    /\ pipe' = pipe + 1
    /\ Goto(w, "push_unlock")
    /\ UNCHANGED <<items, mutex, pushed, taken>>

PushUnlock(w) ==
    /\ pc[w] = "push_unlock"
    /\ Release
    /\ Goto(w, "idle")
    /\ UNCHANGED <<items, pipe, pushed, taken>>

-----------------------------------------------------------------------------
(* SelectableQueue::pop, called when the pipe is readable.                  *)

PopRead ==
    /\ pc[Main] = "idle"
    /\ pipe > 0
    /\ pipe' = pipe - 1
    /\ Goto(Main, "pop_lock")
    /\ UNCHANGED <<items, mutex, pushed, taken>>

PopLock ==
    /\ pc[Main] = "pop_lock"
    /\ Acquire(Main)
    /\ Goto(Main, "pop")
    /\ UNCHANGED <<items, pipe, pushed, taken>>

(* Mutant: one pop takes all items, for one byte.                           *)
PopItem_drains ==
    /\ pc[Main] = "pop"
    /\ taken' = taken \o items
    /\ items' = <<>>
    /\ Goto(Main, "pop_unlock")
    /\ UNCHANGED <<mutex, pipe, pushed>>

(* With no item pop unlocks and returns -1: the byte is lost, and the       *)
(* caller, which tests for 0, goes on with an uninitialized job.            *)
PopItem ==
    /\ pc[Main] = "pop"
    /\ IF items = <<>>
       THEN /\ Goto(Main, "pop_error")
            /\ Release
            /\ UNCHANGED <<items, taken>>
       ELSE /\ taken' = Append(taken, Head(items))
            /\ items' = Tail(items)
            /\ Goto(Main, "pop_unlock")
            /\ UNCHANGED mutex
    /\ UNCHANGED <<pipe, pushed>>

PopUnlock ==
    /\ pc[Main] = "pop_unlock"
    /\ Release
    /\ Goto(Main, "idle")
    /\ UNCHANGED <<items, pipe, pushed, taken>>

-----------------------------------------------------------------------------
Push(w) == PushItem(w) \/ PushWrite(w) \/ PushUnlock(w)
Pop == PopRead \/ PopItem \/ PopUnlock

Next == \/ \E w \in Workers : PushLock(w) \/ Push(w)
        \/ PopLock
        \/ Pop

Spec == Init /\ [][Next]_vars

(* A thread runs on, the main loop comes back to a readable pipe, and a     *)
(* thread that keeps asking for the mutex gets it.                          *)
Fairness == /\ \A w \in Workers : WF_vars(Push(w))
            /\ WF_vars(Pop)
            /\ SF_vars(PopLock)

FairSpec == Spec /\ Fairness

-----------------------------------------------------------------------------
(* Every variable has a value of its kind; the pipe is never overfull.      *)
TypeOK == /\ items \in Seq(Nat)
          /\ mutex \in Threads \cup {Nobody}
          /\ pipe \in 0..PipeSize
          /\ pc \in [Threads -> {"idle", "push", "write", "push_unlock",
                                "pop_lock", "pop", "pop_unlock", "pop_error"}]
          /\ pushed \in Nat
          /\ taken \in Seq(Nat)

(* The results come out each exactly once, in the order of the pushes.      *)
Fifo == INSTANCE FifoSpec WITH Values <- 1..MaxResults, queue <- items

ImplementsFifo == Fifo!Spec

(* The bytes of the pipe count the items: each item has one byte, in the    *)
(* pipe, about to be written by the worker that pushed it, or read already  *)
(* by the main thread on its way to it.                                     *)
Writing == {w \in Workers : pc[w] = "write"}
Popping == pc[Main] \in {"pop_lock", "pop"}

BytesCountItems ==
    Len(items) = pipe + (IF Writing = {} THEN 0 ELSE 1) + (IF Popping THEN 1 ELSE 0)

(* The two threads never wait for each other, a worker for room in the pipe *)
(* with the mutex held and the main thread for the mutex with a byte read.  *)
NoMutualWait ==
    ~ /\ pc[Main] = "pop_lock"
      /\ pipe = PipeSize
      /\ Writing # {}

(* Every result pushed reaches the main thread, also when the workers fill  *)
(* the pipe: "multi writers, single reader" (thread.h:95).                  *)
ResultsAreTaken == \A k \in 1..MaxResults : pushed >= k ~> Len(taken) >= k
=============================================================================
