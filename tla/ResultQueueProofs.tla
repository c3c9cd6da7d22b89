-------------------------- MODULE ResultQueueProofs --------------------------
(***************************************************************************)
(* For every number of workers and every size of the pipe: the bytes in    *)
(* the pipe of the result queue count its items, so that a pop that has    *)
(* read a byte finds its item and the results come out in order; and while *)
(* at most one result more than the pipe holds is on its way, a worker and *)
(* the main thread never wait for each other.                              *)
(***************************************************************************)
EXTENDS ResultQueue, TLAPS

PushLocked == {"push", "write", "push_unlock"}
PopLocked == {"pop", "pop_unlock"}

(* Between its lock and its unlock a thread holds the mutex.                *)
Holders == /\ \A w \in Workers : pc[w] \in PushLocked => mutex = w
           /\ pc[Main] \in PopLocked => mutex = Main

(* The labels are those of the thread's own operation.                      *)
OwnLabels == /\ \A w \in Workers : pc[w] \in PushLocked \cup {"idle"}
             /\ pc[Main] \in PopLocked \cup {"idle", "pop_lock"}

Outstanding == pushed - Len(taken) = Len(items)

(* A result is pushed only while there are fewer than MaxOutstanding.       *)
Bounded == /\ pushed <= MaxResults
           /\ Len(items) <= MaxOutstanding
           /\ \A w \in Workers : pc[w] = "push" =>
                 pushed < MaxResults /\ Len(items) < MaxOutstanding

(* BytesCountItems with the one worker that may be writing named.           *)
Counted ==
    LET popping == IF Popping THEN 1 ELSE 0
    IN  \/ /\ \A w \in Workers : pc[w] # "write"
           /\ Len(items) = pipe + popping
        \/ /\ \E w \in Workers : pc[w] = "write"
           /\ Len(items) = pipe + 1 + popping

Inv == TypeOK /\ Holders /\ OwnLabels /\ Outstanding /\ Bounded /\ Counted

LEMMA InitInv == Init => Inv
  <1> SUFFICES ASSUME Init PROVE Inv
    OBVIOUS
  <1>1. /\ items = <<>> /\ taken = <<>> /\ pipe = 0 /\ pushed = 0 /\ mutex = Nobody
        /\ pc = [t \in Threads |-> "idle"]
        /\ \A t \in Threads : pc[t] = "idle"
        /\ Main \in Threads /\ Workers \subseteq Threads
    BY DEF Init, Threads
  <1>2. TypeOK
    BY <1>1, BoundAssumption DEF TypeOK
  <1>3. Holders /\ OwnLabels
    BY <1>1 DEF Holders, OwnLabels, PushLocked, PopLocked
  <1>0. Len(items) = 0 /\ Len(taken) = 0
    BY <1>1
  <1>4. Outstanding /\ Bounded
    <2>1. \A w \in Workers : pc[w] # "push"
      BY <1>1
    <2> QED
      BY <1>0, <1>1, <2>1, BoundAssumption DEF Outstanding, Bounded
  <1>5. Counted
    BY <1>0, <1>1 DEF Counted, Popping
  <1> QED
    BY <1>2, <1>3, <1>4, <1>5 DEF Inv

(* A step of a worker.                                                      *)
LEMMA WorkerInv ==
  ASSUME Inv, NEW w \in Workers, PushLock(w) \/ Push(w)
  PROVE  Inv'
  <1> USE DEF Threads, Goto
  <1>w. w \in Threads /\ Main \in Threads /\ w # Main
    BY ThreadAssumption
  <1>t. /\ items \in Seq(Nat) /\ taken \in Seq(Nat) /\ pushed \in Nat /\ pipe \in 0..PipeSize
        /\ pc \in [Threads -> {"idle", "push", "write", "push_unlock",
                               "pop_lock", "pop", "pop_unlock", "pop_error"}]
        /\ Len(items) \in Nat /\ Len(taken) \in Nat
    BY DEF Inv, TypeOK
  <1>1. CASE PushLock(w)
    <2>0. /\ mutex = Nobody /\ mutex' = w
          /\ pc' = [pc EXCEPT ![w] = "push"] /\ pc[w] = "idle"
          /\ UNCHANGED <<items, pipe, pushed, taken>>
      BY <1>1 DEF PushLock, Acquire
    <2>1. TypeOK'
      BY <1>w, <2>0 DEF Inv, TypeOK
    <2>2. Holders'
      BY <1>w, <1>t, <2>0, ThreadAssumption DEF Inv, Holders, PushLocked, PopLocked
    <2>3. OwnLabels'
      BY <1>w, <1>t, <2>0 DEF Inv, OwnLabels, PushLocked
    <2>4. Outstanding' /\ Bounded'
      <3>1. pushed < MaxResults /\ Len(items) < MaxOutstanding
        BY <1>1 DEF PushLock, Inv, Outstanding
      <3> QED
        BY <1>t, <2>0, <3>1 DEF Inv, Outstanding, Bounded
    <2>5. Counted'
      BY <1>w, <1>t, <2>0 DEF Inv, Counted, Popping
    <2> QED
      BY <2>1, <2>2, <2>3, <2>4, <2>5 DEF Inv
  <1>2. CASE PushItem(w)
    <2>0. /\ items' = Append(items, pushed + 1) /\ pushed' = pushed + 1
          /\ pc' = [pc EXCEPT ![w] = "write"] /\ pc[w] = "push" /\ mutex = w
          /\ UNCHANGED <<mutex, pipe, taken>>
          /\ Len(items') = Len(items) + 1
      BY <1>2, <1>t DEF PushItem, Inv, Holders, PushLocked
    <2>1. TypeOK'
      BY <1>w, <1>t, <2>0 DEF Inv, TypeOK
    <2>2. Holders'
      BY <1>w, <1>t, <2>0 DEF Inv, Holders, PushLocked, PopLocked
    <2>3. OwnLabels'
      BY <1>w, <1>t, <2>0 DEF Inv, OwnLabels, PushLocked
    <2>4. Outstanding'
      BY <1>t, <2>0 DEF Inv, Outstanding
    <2>5. Bounded'
      <3>1. \A v \in Workers : pc'[v] # "push"
        BY <1>t, <2>0 DEF Inv, Holders, PushLocked
      <3> QED
        BY <1>t, <2>0, <3>1, BoundAssumption DEF Inv, Bounded
    <2>6. Counted'
      <3>1. \A v \in Workers : pc[v] # "write"
        BY <2>0 DEF Inv, Holders, PushLocked
      <3>2. pc'[w] = "write" /\ pc'[Main] = pc[Main]
        BY <1>w, <1>t, <2>0
      <3>3. Len(items) = pipe + IF Popping THEN 1 ELSE 0
        BY <3>1 DEF Inv, Counted
      <3> QED
        BY <1>t, <2>0, <3>2, <3>3 DEF Counted, Popping
    <2> QED
      BY <2>1, <2>2, <2>3, <2>4, <2>5, <2>6 DEF Inv
  <1>3. CASE PushWrite(w)
    <2>0. /\ pipe < PipeSize /\ pipe' = pipe + 1
          /\ pc' = [pc EXCEPT ![w] = "push_unlock"] /\ pc[w] = "write" /\ mutex = w
          /\ UNCHANGED <<items, mutex, pushed, taken>>
      BY <1>3 DEF PushWrite, Inv, Holders, PushLocked
    <2>1. TypeOK'
      BY <1>w, <1>t, <2>0, BoundAssumption DEF Inv, TypeOK
    <2>2. Holders'
      BY <1>w, <1>t, <2>0 DEF Inv, Holders, PushLocked, PopLocked
    <2>3. OwnLabels'
      BY <1>w, <1>t, <2>0 DEF Inv, OwnLabels, PushLocked
    <2>4. Outstanding' /\ Bounded'
      BY <1>t, <2>0 DEF Inv, Outstanding, Bounded
    <2>5. Counted'
      <3>1. \A v \in Workers : pc'[v] # "write"
        BY <1>t, <2>0 DEF Inv, Holders, PushLocked
      <3>2. pc'[Main] = pc[Main]
        BY <1>w, <1>t, <2>0
      <3>3. Len(items) = pipe + 1 + IF Popping THEN 1 ELSE 0
        BY <2>0 DEF Inv, Counted
      <3> QED
        BY <1>t, <2>0, <3>1, <3>2, <3>3 DEF Counted, Popping
    <2> QED
      BY <2>1, <2>2, <2>3, <2>4, <2>5 DEF Inv
  <1>4. CASE PushUnlock(w)
    <2>0. /\ mutex' = Nobody
          /\ pc' = [pc EXCEPT ![w] = "idle"] /\ pc[w] = "push_unlock" /\ mutex = w
          /\ UNCHANGED <<items, pipe, pushed, taken>>
      BY <1>4 DEF PushUnlock, Release, Inv, Holders, PushLocked
    <2>1. TypeOK'
      BY <1>w, <1>t, <2>0 DEF Inv, TypeOK
    <2>2. Holders'
      BY <1>w, <1>t, <2>0 DEF Inv, Holders, PushLocked, PopLocked
    <2>3. OwnLabels'
      BY <1>w, <1>t, <2>0 DEF Inv, OwnLabels, PushLocked
    <2>4. Outstanding' /\ Bounded'
      BY <1>t, <2>0 DEF Inv, Outstanding, Bounded
    <2>5. Counted'
      BY <1>w, <1>t, <2>0 DEF Inv, Counted, Popping
    <2> QED
      BY <2>1, <2>2, <2>3, <2>4, <2>5 DEF Inv
  <1> QED
    BY <1>1, <1>2, <1>3, <1>4 DEF Push

(* A step of the main thread.                                               *)
LEMMA MainInv ==
  ASSUME Inv, PopLock \/ Pop
  PROVE  Inv'
  <1> USE DEF Threads, Goto
  <1>m. Main \in Threads /\ Main \notin Workers
    BY ThreadAssumption
  <1>t. /\ items \in Seq(Nat) /\ taken \in Seq(Nat) /\ pushed \in Nat /\ pipe \in 0..PipeSize
        /\ pc \in [Threads -> {"idle", "push", "write", "push_unlock",
                               "pop_lock", "pop", "pop_unlock", "pop_error"}]
        /\ Len(items) \in Nat /\ Len(taken) \in Nat
    BY DEF Inv, TypeOK
  <1>1. CASE PopRead
    <2>0. /\ pipe > 0 /\ pipe' = pipe - 1
          /\ pc' = [pc EXCEPT ![Main] = "pop_lock"] /\ pc[Main] = "idle"
          /\ UNCHANGED <<items, mutex, pushed, taken>>
      BY <1>1 DEF PopRead
    <2>1. TypeOK'
      BY <1>m, <1>t, <2>0, BoundAssumption DEF Inv, TypeOK
    <2>2. Holders' /\ OwnLabels'
      BY <1>m, <1>t, <2>0 DEF Inv, Holders, OwnLabels, PushLocked, PopLocked
    <2>3. Outstanding' /\ Bounded'
      BY <1>m, <1>t, <2>0 DEF Inv, Outstanding, Bounded
    <2>4. Counted'
      <3>1. ~Popping /\ Popping'
        BY <1>m, <1>t, <2>0 DEF Popping
      <3>2. \A w \in Workers : pc'[w] = pc[w]
        BY <1>m, <1>t, <2>0
      <3> QED
        BY <1>t, <2>0, <3>1, <3>2, BoundAssumption DEF Inv, Counted
    <2> QED
      BY <2>1, <2>2, <2>3, <2>4 DEF Inv
  <1>2. CASE PopLock
    <2>0. /\ mutex = Nobody /\ mutex' = Main
          /\ pc' = [pc EXCEPT ![Main] = "pop"] /\ pc[Main] = "pop_lock"
          /\ UNCHANGED <<items, pipe, pushed, taken>>
      BY <1>2 DEF PopLock, Acquire
    <2>1. TypeOK'
      BY <1>m, <1>t, <2>0 DEF Inv, TypeOK
    <2>2. Holders' /\ OwnLabels'
      BY <1>m, <1>t, <2>0, ThreadAssumption
      DEF Inv, Holders, OwnLabels, PushLocked, PopLocked
    <2>3. Outstanding' /\ Bounded'
      BY <1>m, <1>t, <2>0 DEF Inv, Outstanding, Bounded
    <2>4. Counted'
      BY <1>m, <1>t, <2>0 DEF Inv, Counted, Popping
    <2> QED
      BY <2>1, <2>2, <2>3, <2>4 DEF Inv
  <1>3. CASE PopItem
    <2>0. /\ pc[Main] = "pop" /\ mutex = Main /\ pipe' = pipe /\ pushed' = pushed
      BY <1>3 DEF PopItem, Inv, Holders, PopLocked
    <2>1. (\A w \in Workers : pc[w] # "write") /\ Len(items) = pipe + 1
      BY <1>m, <2>0 DEF Inv, Holders, PushLocked, Counted, Popping
    <2>2. items # <<>>
      BY <1>t, <2>1
    <2>3. /\ items' = Tail(items) /\ taken' = Append(taken, Head(items))
          /\ pc' = [pc EXCEPT ![Main] = "pop_unlock"] /\ mutex' = mutex
          /\ Len(items') = Len(items) - 1 /\ Len(taken') = Len(taken) + 1
      BY <1>3, <1>t, <2>2 DEF PopItem
    <2>4. TypeOK'
      BY <1>m, <1>t, <2>0, <2>2, <2>3 DEF Inv, TypeOK
    <2>5. Holders' /\ OwnLabels'
      BY <1>m, <1>t, <2>0, <2>3 DEF Inv, Holders, OwnLabels, PushLocked, PopLocked
    <2>6. Outstanding' /\ Bounded'
      <3>1. Outstanding'
        <4>1. pushed - Len(taken) = Len(items)
          BY DEF Inv, Outstanding
        <4>2. /\ Len(items') = Len(items) - 1 /\ Len(taken') = Len(taken) + 1
              /\ pushed' = pushed
          BY <2>0, <2>3
        <4>3. pushed \in Nat /\ Len(items) \in Nat /\ Len(taken) \in Nat
          BY <1>t
        <4>4. pushed' - Len(taken') = Len(items')
          BY <4>1, <4>2, <4>3
        <4> QED
          BY <4>4 DEF Outstanding
      <3>2. \A w \in Workers : pc'[w] = pc[w]
        BY <1>m, <1>t, <2>3
      <3>3. \A w \in Workers : pc[w] # "push"
        BY <1>m, <2>0 DEF Inv, Holders, PushLocked
      <3>4. pushed <= MaxResults /\ Len(items) <= MaxOutstanding
        BY DEF Inv, Bounded
      <3>5. pushed' <= MaxResults /\ Len(items') <= MaxOutstanding
        BY <1>t, <2>0, <2>3, <3>4, BoundAssumption
      <3> QED
        BY <3>1, <3>2, <3>3, <3>5 DEF Bounded
    <2>7. Counted'
      BY <1>m, <1>t, <2>0, <2>1, <2>3 DEF Counted, Popping
    <2> QED
      BY <2>4, <2>5, <2>6, <2>7 DEF Inv
  <1>4. CASE PopUnlock
    <2>0. /\ mutex' = Nobody
          /\ pc' = [pc EXCEPT ![Main] = "idle"] /\ pc[Main] = "pop_unlock" /\ mutex = Main
          /\ UNCHANGED <<items, pipe, pushed, taken>>
      BY <1>4 DEF PopUnlock, Release, Inv, Holders, PopLocked
    <2>1. TypeOK'
      BY <1>m, <1>t, <2>0 DEF Inv, TypeOK
    <2>2. Holders' /\ OwnLabels'
      BY <1>m, <1>t, <2>0 DEF Inv, Holders, OwnLabels, PushLocked, PopLocked
    <2>3. Outstanding' /\ Bounded'
      BY <1>m, <1>t, <2>0 DEF Inv, Outstanding, Bounded
    <2>4. Counted'
      BY <1>m, <1>t, <2>0 DEF Inv, Counted, Popping
    <2> QED
      BY <2>1, <2>2, <2>3, <2>4 DEF Inv
  <1> QED
    BY <1>1, <1>2, <1>3, <1>4 DEF Pop

LEMMA NextInv == Inv /\ [Next]_vars => Inv'
  <1> SUFFICES ASSUME Inv, [Next]_vars PROVE Inv'
    OBVIOUS
  <1>1. CASE UNCHANGED vars
    <2> USE <1>1 DEF vars
    <2>1. TypeOK' /\ Holders' /\ OwnLabels'
      BY DEF Inv, TypeOK, Holders, OwnLabels
    <2>2. Outstanding' /\ Bounded'
      BY DEF Inv, Outstanding, Bounded
    <2>3. Counted'
      BY DEF Inv, Counted, Popping
    <2> QED
      BY <2>1, <2>2, <2>3 DEF Inv
  <1>2. CASE Next
    BY <1>2, WorkerInv, MainInv DEF Next
  <1> QED
    BY <1>1, <1>2

LEMMA CountedMeans == TypeOK /\ Counted => BytesCountItems
  <1> SUFFICES ASSUME pipe \in Nat, Counted PROVE BytesCountItems
    BY BoundAssumption DEF TypeOK
  <1>1. CASE \A w \in Workers : pc[w] # "write"
    <2>1. Writing = {}
      BY <1>1 DEF Writing
    <2> QED
      BY <1>1, <2>1 DEF Counted, BytesCountItems
  <1>2. CASE \E w \in Workers : pc[w] = "write"
    <2>1. Writing # {}
      BY <1>2 DEF Writing
    <2> QED
      BY <1>2, <2>1 DEF Counted, BytesCountItems
  <1> QED
    BY <1>1, <1>2

(* The bytes in the pipe of a SelectableQueue (thread.h) count its items,   *)
(* so that epoll reports the queue readable exactly when there is a result  *)
(* to pop, and a pop that has read a byte finds one.                        *)
THEOREM PipeCountsItems == Spec => []BytesCountItems
  <1>1. Inv => BytesCountItems
    BY CountedMeans DEF Inv
  <1> QED
    BY InitInv, NextInv, <1>1, PTL DEF Spec

(* push holds the mutex while it waits for room in the pipe, and pop waits  *)
(* for the mutex with a byte in its hand; still they never wait for each    *)
(* other as long as no more results are on their way at once than the pipe  *)
(* holds bytes, plus one.                                                   *)
THEOREM NoMutualWaitWithFewLinks ==
  ASSUME MaxOutstanding <= PipeSize + 1
  PROVE  Spec => []NoMutualWait
  <1>1. Inv => NoMutualWait
    <2> SUFFICES ASSUME Inv, pc[Main] = "pop_lock", pipe = PipeSize, Writing # {}
                 PROVE  FALSE
      BY DEF NoMutualWait
    <2>1. Len(items) = PipeSize + 2
      BY BoundAssumption DEF Inv, Counted, Popping, Writing
    <2>2. Len(items) <= MaxOutstanding
      BY DEF Inv, Bounded
    <2> QED
      BY <2>1, <2>2, BoundAssumption
  <1> QED
    BY InitInv, NextInv, <1>1, PTL DEF Spec

(* SelectableQueue<T> is a FIFO queue: every result is popped at most once, *)
(* in the order of the pushes.                                              *)
THEOREM ResultQueueIsFifo == Spec => ImplementsFifo
  <1>1. Init => Fifo!Init
    BY DEF Init, Fifo!Init
  <1>2. Inv /\ [Next]_vars => [Fifo!Next]_(Fifo!vars)
    <2> SUFFICES ASSUME Inv, Next PROVE Fifo!Next \/ UNCHANGED Fifo!vars
      BY DEF vars, Fifo!vars
    <2>1. ASSUME NEW w \in Workers, PushItem(w) PROVE Fifo!Next
      <3>1. pushed + 1 \in 1..MaxResults
        BY <2>1, BoundAssumption DEF PushItem, Inv, TypeOK, Bounded
      <3>2. Fifo!Put(pushed + 1)
        BY <2>1 DEF PushItem, Fifo!Put
      <3> QED
        BY <3>1, <3>2 DEF Fifo!Next
    <2>2. ASSUME PopItem PROVE Fifo!Next \/ UNCHANGED Fifo!vars
      BY <2>2 DEF PopItem, Fifo!Take, Fifo!Next, Fifo!vars
    <2>3. ASSUME NEW w \in Workers, PushLock(w) \/ PushWrite(w) \/ PushUnlock(w)
          PROVE  UNCHANGED Fifo!vars
      BY <2>3 DEF PushLock, PushWrite, PushUnlock, Fifo!vars
    <2>4. ASSUME PopRead \/ PopLock \/ PopUnlock
          PROVE  UNCHANGED Fifo!vars
      BY <2>4 DEF PopRead, PopLock, PopUnlock, Fifo!vars
    <2> QED
      BY <2>1, <2>2, <2>3, <2>4 DEF Next, Push, Pop
  <1> QED
    BY InitInv, NextInv, <1>1, <1>2, PTL DEF Spec, ImplementsFifo, Fifo!Spec
=============================================================================
