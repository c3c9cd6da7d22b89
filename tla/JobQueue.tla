------------------------------ MODULE JobQueue ------------------------------
(***************************************************************************)
(* Queue<T> of src/util/thread.h, the queue of jobs of a WorkerPool: the   *)
(* main thread pushes, the workers pop, under a pthread mutex and a        *)
(* condition variable.  push signals after it has released the mutex;      *)
(* pthread_cond_wait releases the mutex and starts to wait in one step,    *)
(* may wake up for no reason, and takes the mutex again before it returns. *)
(*                                                                         *)
(* The jobs are the numbers 1, 2, ... in the order of the pushes, at most  *)
(* MaxJobs of them.                                                        *)
(***************************************************************************)
EXTENDS Integers, Sequences

CONSTANTS Producers,   \* the threads that push (the main thread)
          Consumers,   \* the threads that pop (the workers)
          Nobody,      \* no thread
          Garbage,     \* what reading the front of an empty std::queue gives
          MaxJobs      \* bound on the number of pushes

ASSUME ThreadAssumption == /\ Producers \cap Consumers = {}
                           /\ Nobody \notin Producers \cup Consumers
                           /\ Consumers # {}

ASSUME JobAssumption == MaxJobs \in Nat /\ Garbage \notin Int

VARIABLES items,    \* Queue::items
          mutex,    \* the thread holding Queue::mutex, or Nobody
          waiting,  \* the threads inside pthread_cond_wait
          pc,       \* where each thread is in push or pop
          pushed,   \* history: the number of jobs pushed
          taken     \* history: what the pops returned, in order

vars == <<items, mutex, waiting, pc, pushed, taken>>

Threads == Producers \cup Consumers

Init == /\ items = <<>>
        /\ mutex = Nobody
        /\ waiting = {}
        /\ pc = [t \in Threads |-> "idle"]
        /\ pushed = 0
        /\ taken = <<>>

Goto(t, label) == pc' = [pc EXCEPT ![t] = label]

Acquire(t) == mutex = Nobody /\ mutex' = t
Release == mutex' = Nobody

-----------------------------------------------------------------------------
(* Queue::push                                                              *)

PushLock(p) ==
    /\ pc[p] = "idle"
    /\ pushed < MaxJobs
    /\ Acquire(p)
    /\ Goto(p, "push")
    /\ UNCHANGED <<items, waiting, pushed, taken>>

PushItem(p) ==
    /\ pc[p] = "push"
    /\ items' = Append(items, pushed + 1)
    /\ pushed' = pushed + 1
    /\ Goto(p, "push_unlock")
    /\ UNCHANGED <<mutex, waiting, taken>>

(* Mutant: nobody is signalled.                                             *)
PushUnlock_no_signal(p) ==
    /\ pc[p] = "push_unlock"
    /\ Release
    /\ Goto(p, "idle")
    /\ UNCHANGED <<items, waiting, pushed, taken>>

PushUnlock(p) ==
    /\ pc[p] = "push_unlock"
    /\ Release
    /\ Goto(p, "signal")
    /\ UNCHANGED <<items, waiting, pushed, taken>>

(* pthread_cond_signal wakes one of the waiting threads, if there is one.   *)
Signal(p) ==
    /\ pc[p] = "signal"
    /\ \/ /\ waiting = {}
          /\ Goto(p, "idle")
          /\ UNCHANGED waiting
       \/ \E c \in waiting :
             /\ waiting' = waiting \ {c}
             /\ pc' = [pc EXCEPT ![p] = "idle", ![c] = "woken"]
    /\ UNCHANGED <<items, mutex, pushed, taken>>

-----------------------------------------------------------------------------
(* Queue::pop                                                               *)

PopLock(c) ==
    /\ pc[c] = "idle"
    /\ Acquire(c)
    /\ Goto(c, "test")
    /\ UNCHANGED <<items, waiting, pushed, taken>>

(* while(items.empty()) pthread_cond_wait(&cond, &mutex)                    *)
PopWait(c) ==
    /\ pc[c] = "test"
    /\ items = <<>>
    /\ Release
    /\ waiting' = waiting \cup {c}
    /\ Goto(c, "waiting")
    /\ UNCHANGED <<items, pushed, taken>>

SpuriousWakeup(c) ==
    /\ pc[c] = "waiting"
    /\ waiting' = waiting \ {c}
    /\ Goto(c, "woken")
    /\ UNCHANGED <<items, mutex, pushed, taken>>

(* Mutant: "if(items.empty())" in place of the loop.                        *)
PopWoken_no_retest(c) ==
    /\ pc[c] = "woken"
    /\ Acquire(c)
    /\ Goto(c, "pop")
    /\ UNCHANGED <<items, waiting, pushed, taken>>

(* pthread_cond_wait returns with the mutex, and the loop tests again.      *)
PopWoken(c) ==
    /\ pc[c] = "woken"
    /\ Acquire(c)
    /\ Goto(c, "test")
    /\ UNCHANGED <<items, waiting, pushed, taken>>

PopReady(c) ==
    /\ pc[c] = "test"
    /\ items # <<>>
    /\ Goto(c, "pop")
    /\ UNCHANGED <<items, mutex, waiting, pushed, taken>>

(* items.front() and items.pop(), undefined when there is no item.          *)
PopItem(c) ==
    /\ pc[c] = "pop"
    /\ taken' = Append(taken, IF items = <<>> THEN Garbage ELSE Head(items))
    /\ items' = IF items = <<>> THEN <<>> ELSE Tail(items)
    /\ Goto(c, "pop_unlock")
    /\ UNCHANGED <<mutex, waiting, pushed>>

(* Mutant: pop returns with the mutex locked.                               *)
PopUnlock_keeps_mutex(c) ==
    /\ pc[c] = "pop_unlock"
    /\ Goto(c, "busy")
    /\ UNCHANGED <<items, mutex, waiting, pushed, taken>>

(* The worker has its job; it comes back for another one when it is done.   *)
PopUnlock(c) ==
    /\ pc[c] = "pop_unlock"
    /\ Release
    /\ Goto(c, "busy")
    /\ UNCHANGED <<items, waiting, pushed, taken>>

Work(c) ==
    /\ pc[c] = "busy"
    /\ Goto(c, "idle")
    /\ UNCHANGED <<items, mutex, waiting, pushed, taken>>

-----------------------------------------------------------------------------
Push(p) == PushItem(p) \/ PushUnlock(p) \/ Signal(p)
Pop(c) == PopWait(c) \/ PopReady(c) \/ PopItem(c) \/ PopUnlock(c) \/ Work(c)

Next == \/ \E p \in Producers : PushLock(p) \/ Push(p)
        \/ \E c \in Consumers : PopLock(c) \/ PopWoken(c) \/ SpuriousWakeup(c) \/ Pop(c)

Spec == Init /\ [][Next]_vars

(* Threads keep running, and a thread that keeps asking for the mutex gets  *)
(* it; nothing forces the main thread to push, or a wakeup to be spurious.  *)
Fairness == /\ \A p \in Producers : WF_vars(Push(p))
            /\ \A c \in Consumers : /\ WF_vars(Pop(c))
                                    /\ SF_vars(PopLock(c))
                                    /\ SF_vars(PopWoken(c))

FairSpec == Spec /\ Fairness

-----------------------------------------------------------------------------
(* Every variable has a value of its kind; in particular no pop has         *)
(* returned what the front of an empty std::queue happens to hold.          *)
TypeOK == /\ items \in Seq(Nat)
          /\ mutex \in Threads \cup {Nobody}
          /\ waiting \subseteq Consumers
          /\ pc \in [Threads -> {"idle", "push", "push_unlock", "signal", "test",
                                "waiting", "woken", "pop", "pop_unlock", "busy"}]
          /\ pushed \in Nat
          /\ taken \in Seq(Nat)

(* However many workers pop at once, and whatever wakes them up, the jobs   *)
(* are handed out each to one worker, in the order of the pushes, and no    *)
(* pop reads an empty queue.                                                *)
Fifo == INSTANCE FifoSpec WITH Values <- 1..MaxJobs, queue <- items

ImplementsFifo == Fifo!Spec

(* No wakeup is lost: while there is a job, either some worker is awake, or *)
(* the producer that pushed is about to signal - although it signals after  *)
(* it gave up the mutex, and its signal finds nobody if nobody waits yet.   *)
NotAllAsleep ==
    items # <<>> => \/ waiting # Consumers
                    \/ \E p \in Producers : pc[p] \in {"push_unlock", "signal"}

(* Every job pushed is eventually popped.                                   *)
JobsAreTaken == \A k \in 1..MaxJobs : pushed >= k ~> Len(taken) >= k
=============================================================================
