--------------------------- MODULE JobQueueProofs ---------------------------
(***************************************************************************)
(* For every number of producers, workers and jobs: the job queue of a     *)
(* WorkerPool loses no wakeup, and it hands out the jobs as a FIFO queue   *)
(* does.  The second rests on the mutex: a worker that has seen the queue  *)
(* nonempty is the only one that can take from it until it has taken.      *)
(***************************************************************************)
EXTENDS JobQueue, TLAPS

Locked == {"push", "push_unlock", "test", "pop", "pop_unlock"}

(* Between its lock and its unlock a thread holds the mutex.                *)
Holders == \A t \in Threads : pc[t] \in Locked => mutex = t

PopFindsItem == \A c \in Consumers : pc[c] = "pop" => items # <<>>

PushBound == \A p \in Producers : pc[p] = "push" => pushed < MaxJobs

Inv == TypeOK /\ Holders /\ PopFindsItem /\ PushBound /\ NotAllAsleep

LEMMA InitInv == Init => Inv
  BY ThreadAssumption
  DEF Init, Inv, TypeOK, Holders, PopFindsItem, PushBound, NotAllAsleep,
      Locked, Threads

(* A step of a producer.                                                    *)
LEMMA ProducerInv ==
  ASSUME Inv, NEW p \in Producers, PushLock(p) \/ Push(p)
  PROVE  Inv'
  <1> USE DEF Threads
  <1>p. p \in Threads /\ p \notin Consumers
    BY ThreadAssumption
  <1>1. CASE PushLock(p)
    <2>1. TypeOK'
      BY <1>1, <1>p DEF PushLock, Goto, Acquire, Inv, TypeOK
    <2>2. Holders'
      BY <1>1, <1>p, ThreadAssumption DEF PushLock, Goto, Acquire, Inv, TypeOK, Holders, Locked
    <2>3. PopFindsItem' /\ PushBound'
      BY <1>1, <1>p DEF PushLock, Goto, Inv, TypeOK, PopFindsItem, PushBound
    <2>4. NotAllAsleep'
      BY <1>1 DEF PushLock, Goto, Inv, TypeOK, NotAllAsleep
    <2> QED
      BY <2>1, <2>2, <2>3, <2>4 DEF Inv
  <1>2. CASE PushItem(p)
    <2>1. TypeOK'
      BY <1>2, <1>p DEF PushItem, Goto, Acquire, Release, Inv, TypeOK
    <2>2. Holders'
      BY <1>2, <1>p DEF PushItem, Goto, Inv, TypeOK, Holders, Locked
    <2>3. PopFindsItem'
      BY <1>2, <1>p DEF PushItem, Goto, Inv, TypeOK, PopFindsItem
    <2>4. PushBound'
      BY <1>2, <1>p DEF PushItem, Goto, Inv, TypeOK, Holders, Locked, PushBound
    <2>5. NotAllAsleep'
      BY <1>2 DEF PushItem, Goto, Inv, TypeOK, NotAllAsleep
    <2> QED
      BY <2>1, <2>2, <2>3, <2>4, <2>5 DEF Inv
  <1>3. CASE PushUnlock(p)
    <2>1. TypeOK'
      BY <1>3, <1>p DEF PushUnlock, Goto, Acquire, Release, Inv, TypeOK
    <2>2. Holders'
      BY <1>3, <1>p DEF PushUnlock, Goto, Inv, TypeOK, Holders, Locked
    <2>3. PopFindsItem' /\ PushBound'
      BY <1>3, <1>p DEF PushUnlock, Goto, Inv, TypeOK, PopFindsItem, PushBound
    <2>4. NotAllAsleep'
      BY <1>3 DEF PushUnlock, Goto, Inv, TypeOK, NotAllAsleep
    <2> QED
      BY <2>1, <2>2, <2>3, <2>4 DEF Inv
  <1>4. CASE Signal(p)
    <2>1. TypeOK'
      BY <1>4, <1>p DEF Signal, Goto, Acquire, Release, Inv, TypeOK
    <2>2. Holders'
      BY <1>4, <1>p DEF Signal, Goto, Inv, TypeOK, Holders, Locked
    <2>3. PopFindsItem' /\ PushBound'
      BY <1>4, <1>p DEF Signal, Goto, Inv, TypeOK, PopFindsItem, PushBound
    <2>4. waiting' # Consumers
      BY <1>4, ThreadAssumption DEF Signal, Inv, TypeOK
    <2> QED
      BY <2>1, <2>2, <2>3, <2>4 DEF Inv, NotAllAsleep
  <1> QED
    BY <1>1, <1>2, <1>3, <1>4 DEF Push

(* A step of a worker.                                                      *)
LEMMA ConsumerInv ==
  ASSUME Inv, NEW c \in Consumers,
         PopLock(c) \/ PopWoken(c) \/ SpuriousWakeup(c) \/ Pop(c)
  PROVE  Inv'
  <1> USE DEF Threads
  <1>c. c \in Threads /\ c \notin Producers
    BY ThreadAssumption
  <1>1. CASE PopLock(c) \/ PopWoken(c)
    <2>0. \A t \in Threads : pc[t] \notin Locked
      BY <1>1, ThreadAssumption DEF PopLock, PopWoken, Acquire, Inv, Holders
    <2>1. TypeOK'
      BY <1>1, <1>c DEF PopLock, PopWoken, Goto, Acquire, Release, Inv, TypeOK
    <2>2. Holders'
      BY <1>1, <2>0 DEF PopLock, PopWoken, Goto, Acquire, Inv, TypeOK, Holders, Locked
    <2>3. PopFindsItem' /\ PushBound'
      BY <1>1, <1>c DEF PopLock, PopWoken, Goto, Inv, TypeOK, PopFindsItem, PushBound
    <2>4. NotAllAsleep'
      BY <1>1, <1>c DEF PopLock, PopWoken, Goto, Inv, TypeOK, NotAllAsleep
    <2> QED
      BY <2>1, <2>2, <2>3, <2>4 DEF Inv
  <1>2. CASE PopWait(c)
    <2>1. TypeOK'
      BY <1>2, <1>c DEF PopWait, Goto, Acquire, Release, Inv, TypeOK
    <2>2. Holders'
      BY <1>2, <1>c DEF PopWait, Goto, Inv, TypeOK, Holders, Locked
    <2>3. PopFindsItem' /\ PushBound'
      BY <1>2, <1>c DEF PopWait, Goto, Inv, TypeOK, PopFindsItem, PushBound
    <2>4. NotAllAsleep'
      BY <1>2 DEF PopWait, NotAllAsleep
    <2> QED
      BY <2>1, <2>2, <2>3, <2>4 DEF Inv
  <1>3. CASE SpuriousWakeup(c)
    <2>1. TypeOK'
      BY <1>3, <1>c DEF SpuriousWakeup, Goto, Acquire, Release, Inv, TypeOK
    <2>2. Holders'
      BY <1>3, <1>c DEF SpuriousWakeup, Goto, Inv, TypeOK, Holders, Locked
    <2>3. PopFindsItem' /\ PushBound'
      BY <1>3, <1>c DEF SpuriousWakeup, Goto, Inv, TypeOK, PopFindsItem, PushBound
    <2>4. NotAllAsleep'
      BY <1>3 DEF SpuriousWakeup, NotAllAsleep
    <2> QED
      BY <2>1, <2>2, <2>3, <2>4 DEF Inv
  <1>4. CASE PopReady(c) \/ PopUnlock(c) \/ Work(c)
    <2>1. TypeOK'
      BY <1>4, <1>c DEF PopReady, PopUnlock, Work, Goto, Acquire, Release, Inv, TypeOK
    <2>2. Holders'
      BY <1>4, <1>c DEF PopReady, PopUnlock, Work, Goto, Inv, TypeOK, Holders, Locked
    <2>3. PopFindsItem' /\ PushBound'
      BY <1>4, <1>c DEF PopReady, PopUnlock, Work, Goto, Inv, TypeOK, PopFindsItem, PushBound
    <2>4. NotAllAsleep'
      BY <1>4, <1>c DEF PopReady, PopUnlock, Work, Goto, Inv, TypeOK, NotAllAsleep
    <2> QED
      BY <2>1, <2>2, <2>3, <2>4 DEF Inv
  <1>5. CASE PopItem(c)
    <2>0. items # <<>> /\ items' = Tail(items)
      BY <1>5 DEF PopItem, Inv, PopFindsItem
    <2>1. TypeOK'
      <3>1. Head(items) \in Nat /\ Tail(items) \in Seq(Nat)
        BY <2>0 DEF Inv, TypeOK
      <3>2. taken' = Append(taken, Head(items))
        BY <1>5, <2>0 DEF PopItem
      <3>3. taken' \in Seq(Nat)
        BY <3>1, <3>2 DEF Inv, TypeOK
      <3> QED
        BY <1>5, <2>0, <1>c, <3>1, <3>3 DEF PopItem, Goto, Inv, TypeOK
    <2>2. Holders'
      BY <1>5, <1>c DEF PopItem, Goto, Inv, TypeOK, Holders, Locked
    <2>3. PopFindsItem'
      BY <1>5, <1>c DEF PopItem, Goto, Inv, TypeOK, Holders, Locked, PopFindsItem
    <2>4. PushBound'
      BY <1>5, <1>c DEF PopItem, Goto, Inv, TypeOK, PushBound
    <2>5. NotAllAsleep'
      BY <1>5, <1>c, <2>0 DEF PopItem, Goto, Inv, TypeOK, NotAllAsleep
    <2> QED
      BY <2>1, <2>2, <2>3, <2>4, <2>5 DEF Inv
  <1> QED
    BY <1>1, <1>2, <1>3, <1>4, <1>5 DEF Pop

LEMMA NextInv == Inv /\ [Next]_vars => Inv'
  <1> SUFFICES ASSUME Inv, [Next]_vars PROVE Inv'
    OBVIOUS
  <1>1. CASE UNCHANGED vars
    BY <1>1 DEF vars, Inv, TypeOK, Holders, PopFindsItem, PushBound, NotAllAsleep
  <1>2. CASE Next
    BY <1>2, ProducerInv, ConsumerInv DEF Next
  <1> QED
    BY <1>1, <1>2

(* The variables keep their types; no pop returns a value that was not in   *)
(* the queue.                                                               *)
THEOREM TypeCorrect == Spec => []TypeOK
  <1>1. Inv => TypeOK
    BY DEF Inv
  <1> QED
    BY InitInv, NextInv, <1>1, PTL DEF Spec

(* No wakeup is lost in Queue::push and Queue::pop (thread.h): while a job  *)
(* is queued, some worker is awake or a signal is about to be sent.         *)
THEOREM NoLostWakeup == Spec => []NotAllAsleep
  <1>1. Inv => NotAllAsleep
    BY DEF Inv
  <1> QED
    BY InitInv, NextInv, <1>1, PTL DEF Spec

(* Queue<T> is a FIFO queue: every job is popped at most once, in the order *)
(* of the pushes, and no pop reads an empty queue.                          *)
THEOREM JobQueueIsFifo == Spec => ImplementsFifo
  <1>1. Init => Fifo!Init
    BY DEF Init, Fifo!Init
  <1>2. Inv /\ [Next]_vars => [Fifo!Next]_(Fifo!vars)
    <2> SUFFICES ASSUME Inv, Next PROVE Fifo!Next \/ UNCHANGED Fifo!vars
      BY DEF vars, Fifo!vars
    <2>1. ASSUME NEW p \in Producers, PushItem(p) PROVE Fifo!Next
      <3>1. pushed + 1 \in 1..MaxJobs
        BY <2>1, JobAssumption DEF PushItem, Inv, TypeOK, PushBound
      <3>2. Fifo!Put(pushed + 1)
        BY <2>1 DEF PushItem, Fifo!Put
      <3> QED
        BY <3>1, <3>2 DEF Fifo!Next
    <2>2. ASSUME NEW c \in Consumers, PopItem(c) PROVE Fifo!Next
      <3>1. items # <<>>
        BY <2>2 DEF PopItem, Inv, PopFindsItem
      <3> QED
        BY <2>2, <3>1 DEF PopItem, Fifo!Take, Fifo!Next
    <2>3. ASSUME NEW p \in Producers, PushLock(p) \/ PushUnlock(p) \/ Signal(p)
          PROVE  UNCHANGED Fifo!vars
      BY <2>3 DEF PushLock, PushUnlock, Signal, Fifo!vars
    <2>4. ASSUME NEW c \in Consumers,
                 \/ PopLock(c) \/ PopWoken(c) \/ SpuriousWakeup(c)
                 \/ PopWait(c) \/ PopReady(c) \/ PopUnlock(c) \/ Work(c)
          PROVE  UNCHANGED Fifo!vars
      BY <2>4 DEF PopLock, PopWoken, SpuriousWakeup, PopWait, PopReady, PopUnlock, Work, Fifo!vars
    <2> QED
      BY <2>1, <2>2, <2>3, <2>4 DEF Next, Push, Pop
  <1> QED
    BY InitInv, NextInv, <1>1, <1>2, PTL DEF Spec, ImplementsFifo, Fifo!Spec
=============================================================================
