---------------------------- MODULE QueueProofs ----------------------------
(***************************************************************************)
(* The queues, for every set of names and items and every range of         *)
(* sequence numbers.                                                       *)
(*                                                                         *)
(* QueueStore: the keys keep their kinds and every stored queue stays well *)
(* formed (a push or a pop finds a well-formed queue, and the keys it      *)
(* replaces are exactly those that make the result well formed again), and *)
(* read from front to back the keys are a deque.                           *)
(*                                                                         *)
(* QueueService: a call of several steps is one step of the deque; what a  *)
(* peek or a slice answers; and the items of a call of one writer are a    *)
(* prefix of what it was asked for.  What a loop has done so far is the    *)
(* recursive function AfterItems; the facts about it rest on induction     *)
(* over the natural numbers, in the form of a set that is closed under     *)
(* successors.                                                             *)
(***************************************************************************)
EXTENDS QueueStore, QueueService, SequenceTheorems, WellFoundedInduction, TLAPS

-----------------------------------------------------------------------------
(* Staging an operation on keys of the right kind gives a batch.            *)

LEMMA EmptyBatchType == EmptyBatch \in Batches
  BY DEF EmptyBatch, Batches

LEMMA SetOneType ==
  ASSUME NEW b \in Batches, NEW n \in Names, NEW s \in Seqs, NEW v \in ItemValues
  PROVE  qset_one(b, n, s, v) \in Batches
  BY DEF qset_one, Batches

LEMMA DelOneType ==
  ASSUME NEW b \in Batches, NEW n \in Names, NEW s \in Seqs
  PROVE  qdel_one(b, n, s) \in Batches
  BY DEF qdel_one, Batches, ItemValues

LEMMA SetSizeType ==
  ASSUME NEW b \in Batches, NEW n \in Names, NEW v \in SizeValues
  PROVE  [b EXCEPT !.size[n] = v] \in Batches
  BY DEF Batches

LEMMA EndsAreSeqs == Ends \subseteq Seqs /\ QITEM_SEQ_INIT \in Seqs
  BY SeqAssumption DEF Ends, Seqs, QFRONT_SEQ, QBACK_SEQ

LEMMA QsizeType ==
  ASSUME NEW d \in Databases, NEW n \in Names
  PROVE  qsize(d, n) \in Nat
  BY DEF qsize, Databases, SizeValues

LEMMA IncrQsizeType ==
  ASSUME NEW d \in Databases, NEW b \in Batches, NEW n \in Names, NEW i \in Int
  PROVE  incr_qsize(d, b, n, i) \in Batches
  <1> DEFINE size == qsize(d, n) + i
  <1>1. size \in Int
    BY QsizeType
  <1>2. CASE size <= 0
    <2>1. [b EXCEPT !.size[n] = NotFound] \in Batches
      BY SetSizeType DEF SizeValues
    <2> QED
      BY <1>2, <2>1, DelOneType, EndsAreSeqs DEF incr_qsize, Ends
  <1>3. CASE ~(size <= 0)
    BY <1>1, <1>3, SetSizeType DEF incr_qsize, SizeValues
  <1> QED
    BY <1>2, <1>3

LEMMA AppliedType ==
  ASSUME NEW d \in Databases, NEW b \in Batches
  PROVE  Applied(b, d) \in Databases
  <1>1. \A n \in Names, s \in Seqs :
           /\ d.item[n][s] \in ItemValues
           /\ b.item[n][s] # NoOp => b.item[n][s] \in ItemValues
    BY DEF Databases, Batches
  <1>2. \A n \in Names :
           /\ d.size[n] \in SizeValues
           /\ b.size[n] # NoOp => b.size[n] \in SizeValues
    BY DEF Databases, Batches
  <1> QED
    BY <1>1, <1>2 DEF Applied, Databases

-----------------------------------------------------------------------------
(* A commit touches no key of another queue: neither a push nor a pop       *)
(* stages anything outside the queue n.                                     *)

OnlyQueue(b, n) ==
    \A m \in Names \ {n} :
       b.size[m] = NoOp /\ \A s \in Seqs : b.item[m][s] = NoOp

LEMMA EmptyBatchOnly == ASSUME NEW n \in Names PROVE OnlyQueue(EmptyBatch, n)
  BY DEF OnlyQueue, EmptyBatch

LEMMA SetOneOnly ==
  ASSUME NEW b \in Batches, NEW n \in Names, NEW s \in Seqs, NEW v, OnlyQueue(b, n)
  PROVE  OnlyQueue(qset_one(b, n, s, v), n) /\ OnlyQueue(qdel_one(b, n, s), n)
  BY DEF OnlyQueue, qset_one, qdel_one, Batches

LEMMA OthersKept ==
  ASSUME NEW d \in Databases, NEW b \in Batches, NEW n \in Names, OnlyQueue(b, n),
         WellFormed(d), 
         EmptyQueue(Applied(b, d), n) \/ ContiguousQueue(Applied(b, d), n)
  PROVE  WellFormed(Applied(b, d))
  <1> DEFINE a == Applied(b, d)
  <1>1. ASSUME NEW m \in Names \ {n}
        PROVE  a.size[m] = d.size[m] /\ \A s \in Seqs : a.item[m][s] = d.item[m][s]
    BY <1>1 DEF Applied, OnlyQueue
  <1>2. ASSUME NEW m \in Names \ {n}
        PROVE  EmptyQueue(a, m) \/ ContiguousQueue(a, m)
    <2> HIDE DEF a
    <2>1. EmptyQueue(d, m) \/ ContiguousQueue(d, m)
      BY DEF WellFormed
    <2>2. EmptyQueue(d, m) => EmptyQueue(a, m)
      BY <1>1 DEF EmptyQueue
    <2>3. ContiguousQueue(d, m) => ContiguousQueue(a, m)
      BY <1>1, EndsAreSeqs DEF ContiguousQueue, Ends
    <2> QED
      BY <2>1, <2>2, <2>3
  <1> QED
    BY <1>2 DEF WellFormed

(* The keys a push stages: the item, the end it moves (both ends of a new   *)
(* queue), and the size.                                                    *)
LEMMA PushStages ==
  ASSUME NEW d \in Databases, NEW n \in Names, NEW e \in Ends, NEW item \in Items,
         NEW mark \in Seqs \cup {NotFound}, PushSeq(mark, e) \in Seqs \ Ends
  PROVE  LET b == PushBatch(d, EmptyBatch, n, e, mark, item) IN
         /\ b \in Batches
         /\ OnlyQueue(b, n)
         /\ b.size[n] = qsize(d, n) + 1
         /\ \A s \in Seqs :
               b.item[n][s] = IF s = PushSeq(mark, e) THEN item
                              ELSE IF s = e \/ (mark = NotFound /\ s \in Ends)
                              THEN PushSeq(mark, e)
                              ELSE NoOp
  <1> DEFINE seq == PushSeq(mark, e)
             m == PushMarks(EmptyBatch, n, e, mark)
             p == qset_one(m, n, seq, item)
             b == PushBatch(d, EmptyBatch, n, e, mark, item)
  <1>1. /\ m \in Batches
        /\ OnlyQueue(m, n)
        /\ m.size[n] = NoOp
        /\ \A s \in Seqs : m.item[n][s] =
              IF s = e \/ (mark = NotFound /\ s \in Ends) THEN seq ELSE NoOp
    <2>1. CASE mark = NotFound
      <3> DEFINE m1 == qset_one(EmptyBatch, n, QFRONT_SEQ, QITEM_SEQ_INIT)
      <3>1. /\ m1 \in Batches
            /\ OnlyQueue(m1, n)
            /\ m1.size[n] = NoOp
            /\ \A s \in Seqs : m1.item[n][s] = IF s = QFRONT_SEQ THEN QITEM_SEQ_INIT ELSE NoOp
        <4>1. m1 \in Batches /\ OnlyQueue(m1, n)
          BY EmptyBatchType, EmptyBatchOnly, SetOneType, SetOneOnly, EndsAreSeqs DEF Ends, ItemValues
        <4> QED
          BY <4>1, EndsAreSeqs DEF Ends, EmptyBatch, qset_one
      <3>2. m = qset_one(m1, n, QBACK_SEQ, QITEM_SEQ_INIT) /\ seq = QITEM_SEQ_INIT
        BY <2>1 DEF PushMarks, PushSeq
      <3>3. m \in Batches /\ OnlyQueue(m, n)
        BY <3>1, <3>2, SetOneType, SetOneOnly, EndsAreSeqs DEF Ends, ItemValues
      <3>4. /\ m.size[n] = NoOp
            /\ \A s \in Seqs : m.item[n][s] = IF s \in Ends THEN seq ELSE NoOp
        <4> HIDE DEF m1
        <4> QED
          BY <3>1, <3>2, EndsAreSeqs DEF qset_one, Ends, Batches
      <3> QED
        BY <2>1, <3>3, <3>4
    <2>2. CASE mark # NotFound
      <3>1. m = qset_one(EmptyBatch, n, e, seq)
        BY <2>2 DEF PushMarks
      <3>2. m \in Batches /\ OnlyQueue(m, n)
        BY <3>1, EmptyBatchType, EmptyBatchOnly, SetOneType, SetOneOnly, EndsAreSeqs DEF ItemValues
      <3> QED
        BY <2>2, <3>1, <3>2, EndsAreSeqs DEF EmptyBatch, qset_one
    <2> QED
      BY <2>1, <2>2
  <1>2. /\ p \in Batches
        /\ OnlyQueue(p, n)
        /\ p.size[n] = NoOp
        /\ \A s \in Seqs : p.item[n][s] = IF s = seq THEN item ELSE m.item[n][s]
    <2> HIDE DEF m
    <2>1. p \in Batches /\ OnlyQueue(p, n)
      BY <1>1, SetOneType, SetOneOnly DEF ItemValues
    <2> QED
      BY <1>1, <2>1 DEF qset_one, Batches
  <1>3. b = [p EXCEPT !.size[n] = qsize(d, n) + 1]
    BY QsizeType DEF PushBatch, PushItem, incr_qsize
  <1>4. qsize(d, n) + 1 \in SizeValues
    BY QsizeType DEF SizeValues
  <1>5. b \in Batches
    BY <1>2, <1>3, <1>4, SetSizeType
  <1>6. /\ b.size[n] = qsize(d, n) + 1
        /\ OnlyQueue(b, n)
        /\ b.item = p.item
    <2> HIDE DEF b, p
    <2> QED
      BY <1>2, <1>3 DEF OnlyQueue, Batches
  <1> QED
    BY <1>1, <1>2, <1>5, <1>6

(* What a push makes of a well-formed queue.                                *)
LEMMA PushEffect ==
  ASSUME NEW d \in Databases, WellFormed(d), NEW n \in Names, NEW e \in Ends,
         NEW item \in Items, ~SeqOutOfRange(PushSeq(d.item[n][e], e))
  PROVE  LET mark == d.item[n][e]
             seq == PushSeq(mark, e)
             b == PushBatch(d, EmptyBatch, n, e, mark, item)
             a == Applied(b, d)
         IN  /\ b \in Batches
             /\ OnlyQueue(b, n)
             /\ a.size[n] = qsize(d, n) + 1
             /\ seq \in Seqs \ Ends
             /\ \A s \in Seqs :
                   a.item[n][s] = IF s = seq THEN item
                                  ELSE IF s = e \/ (mark = NotFound /\ s \in Ends)
                                  THEN seq ELSE d.item[n][s]
             /\ ContiguousQueue(a, n)
  <1> DEFINE mark == d.item[n][e]
             seq == PushSeq(mark, e)
             b == PushBatch(d, EmptyBatch, n, e, mark, item)
             a == Applied(b, d)
             front == d.item[n][QFRONT_SEQ]
             back == d.item[n][QBACK_SEQ]
             Effect == /\ b \in Batches
                       /\ OnlyQueue(b, n)
                       /\ a.size[n] = qsize(d, n) + 1
                       /\ seq \in Seqs \ Ends
                       /\ \A s \in Seqs :
                             a.item[n][s] = IF s = seq THEN item
                                            ELSE IF s = e \/ (mark = NotFound /\ s \in Ends)
                                            THEN seq ELSE d.item[n][s]
                       /\ ContiguousQueue(a, n)
  <1>1. ASSUME EmptyQueue(d, n) PROVE Effect
    <2>1. mark = NotFound /\ seq = QITEM_SEQ_INIT /\ qsize(d, n) = 0
      BY <1>1, EndsAreSeqs DEF EmptyQueue, PushSeq, qsize
    <2>2. seq \in Seqs \ Ends
      BY <2>1, EndsAreSeqs, SeqAssumption DEF Ends, QFRONT_SEQ, QBACK_SEQ
    <2>3. /\ b \in Batches
          /\ OnlyQueue(b, n)
          /\ b.size[n] = 1
          /\ \A s \in Seqs : b.item[n][s] = IF s = seq THEN item
                                          ELSE IF s \in Ends THEN seq ELSE NoOp
      <3> HIDE DEF mark, seq
      <3> QED
        BY <2>1, <2>2, PushStages DEF mark, seq
    <2>4. /\ a.size[n] = 1
          /\ \A s \in Seqs : a.item[n][s] = IF s = seq THEN item
                                          ELSE IF s \in Ends THEN seq ELSE NotFound
      <3> HIDE DEF b, seq
      <3> QED
        BY <1>1, <2>1, <2>2, <2>3, ValueAssumption, EndsAreSeqs
        DEF Applied, EmptyQueue, Seqs
    <2>5. ContiguousQueue(a, n)
      <3>1. a.item[n][QFRONT_SEQ] = seq /\ a.item[n][QBACK_SEQ] = seq
        BY <2>2, <2>4, EndsAreSeqs DEF Ends
      <3>2. seq \in QITEM_MIN_SEQ+1 .. QITEM_MAX_SEQ-1
        BY <2>1, SeqAssumption
      <3>3. \A s \in Seqs \ Ends : a.item[n][s] = IF s = seq THEN item ELSE NotFound
        BY <2>4
      <3> HIDE DEF a, seq
      <3> QED
        BY <2>4, <3>1, <3>2, <3>3, SeqAssumption DEF ContiguousQueue, Seqs
    <2>6. a.size[n] = qsize(d, n) + 1
      BY <2>1, <2>4
    <2>7. \A s \in Seqs : a.item[n][s] = IF s = seq THEN item
                                        ELSE IF s = e \/ (mark = NotFound /\ s \in Ends)
                                        THEN seq ELSE d.item[n][s]
      <3>1. \A s \in Seqs : d.item[n][s] = NotFound
        BY <1>1 DEF EmptyQueue
      <3> HIDE DEF a, mark, seq
      <3> QED
        BY <2>1, <2>4, <3>1
    <2> HIDE DEF a, b, mark, seq
    <2> QED
      BY <2>2, <2>3, <2>5, <2>6, <2>7
  <1>2. ASSUME ContiguousQueue(d, n) PROVE Effect
    <2>1. /\ front \in QITEM_MIN_SEQ+1 .. QITEM_MAX_SEQ-1
          /\ back \in front .. QITEM_MAX_SEQ-1
          /\ qsize(d, n) = back - front + 1
          /\ \A s \in Seqs \ Ends : IF s \in front..back THEN d.item[n][s] \in Items
                                                       ELSE d.item[n][s] = NotFound
      BY <1>2, ValueAssumption, SeqAssumption DEF ContiguousQueue, qsize
    <2>2. /\ mark \in Seqs
          /\ seq = IF e = QFRONT_SEQ THEN front - 1 ELSE back + 1
          /\ seq \in QITEM_MIN_SEQ+1 .. QITEM_MAX_SEQ-1
      <3>1. mark = IF e = QFRONT_SEQ THEN front ELSE back
        BY DEF Ends
      <3> HIDE DEF mark, front, back
      <3> QED
        BY <2>1, <3>1, SeqAssumption, ValueAssumption DEF PushSeq, Seqs, SeqOutOfRange, mark
    <2>3. seq \in Seqs \ Ends /\ mark # NotFound
      BY <2>2, SeqAssumption, ValueAssumption DEF Seqs, Ends, QFRONT_SEQ, QBACK_SEQ
    <2>4. /\ b \in Batches
          /\ OnlyQueue(b, n)
          /\ b.size[n] = back - front + 2
          /\ \A s \in Seqs : b.item[n][s] = IF s = seq THEN item
                                          ELSE IF s = e THEN seq ELSE NoOp
      <3> HIDE DEF mark, front, back
      <3>1. back - front + 1 + 1 = back - front + 2
        BY <2>1, SeqAssumption
      <3> HIDE DEF seq
      <3> QED
        BY <2>1, <2>2, <2>3, <3>1, PushStages DEF mark, seq
    <2>5. /\ a.size[n] = back - front + 2
          /\ \A s \in Seqs : a.item[n][s] = IF s = seq THEN item
                                          ELSE IF s = e THEN seq ELSE d.item[n][s]
      <3>1. NoOp \notin Items \cup Int
        BY ValueAssumption
      <3>2. seq \in Int /\ back - front + 2 \in Int
        BY <2>1, <2>2, SeqAssumption
      <3> HIDE DEF b, seq, front, back
      <3> QED
        BY <2>4, <3>1, <3>2 DEF Applied
    <2>6. ContiguousQueue(a, n)
      <3>1. CASE e = QFRONT_SEQ
        <4>1. a.item[n][QFRONT_SEQ] = front - 1 /\ a.item[n][QBACK_SEQ] = back
          <5>1. seq = front - 1
            BY <2>2, <3>1
          <5>2. /\ QFRONT_SEQ \in Seqs /\ QFRONT_SEQ # seq /\ QFRONT_SEQ = e
                /\ QBACK_SEQ \in Seqs /\ QBACK_SEQ # seq /\ QBACK_SEQ # e
            BY <2>3, <3>1, EndsAreSeqs DEF Ends, QFRONT_SEQ, QBACK_SEQ
          <5>3. a.item[n][QFRONT_SEQ] = seq /\ a.item[n][QBACK_SEQ] = back
            <6> HIDE DEF a, seq
            <6> QED
              BY <2>5, <5>2
          <5> HIDE DEF a, seq, front, back
          <5> QED
            BY <5>1, <5>3
        <4>2. \A s \in Seqs \ Ends : a.item[n][s] = IF s = front - 1 THEN item ELSE d.item[n][s]
          BY <2>2, <2>5, <3>1
        <4>3. a.size[n] = back - (front - 1) + 1
          BY <2>1, <2>5, SeqAssumption
        <4> HIDE DEF a, front, back
        <4> QED
          BY <2>1, <2>2, <3>1, <4>1, <4>2, <4>3, SeqAssumption DEF ContiguousQueue, Seqs
      <3>2. CASE e = QBACK_SEQ
        <4>1. a.item[n][QFRONT_SEQ] = front /\ a.item[n][QBACK_SEQ] = back + 1
          BY <2>2, <2>3, <2>5, <3>2, EndsAreSeqs DEF Ends, QFRONT_SEQ, QBACK_SEQ
        <4>2. \A s \in Seqs \ Ends : a.item[n][s] = IF s = back + 1 THEN item ELSE d.item[n][s]
          BY <2>2, <2>5, <3>2 DEF QFRONT_SEQ, QBACK_SEQ
        <4>3. a.size[n] = (back + 1) - front + 1
          BY <2>1, <2>5, SeqAssumption
        <4>4. seq = back + 1
          BY <2>2, <3>2 DEF QFRONT_SEQ, QBACK_SEQ
        <4> HIDE DEF a, front, back, seq
        <4> QED
          BY <2>1, <2>2, <4>1, <4>2, <4>3, <4>4, SeqAssumption DEF ContiguousQueue, Seqs
      <3> QED
        BY <3>1, <3>2 DEF Ends
    <2>7. a.size[n] = qsize(d, n) + 1
      BY <2>1, <2>5, SeqAssumption
    <2> HIDE DEF a, b, mark, seq
    <2> QED
      BY <2>3, <2>4, <2>5, <2>6, <2>7
  <1>3. Effect
    BY <1>1, <1>2 DEF WellFormed
  <1> QED
    BY <1>3

LEMMA PushPreserves ==
  ASSUME NEW d \in Databases, WellFormed(d), NEW n \in Names, NEW e \in Ends,
         NEW item \in Items, ~SeqOutOfRange(PushSeq(d.item[n][e], e))
  PROVE  LET b == PushBatch(d, EmptyBatch, n, e, d.item[n][e], item) IN
         b \in Batches /\ WellFormed(Applied(b, d))
  BY PushEffect, OthersKept

-----------------------------------------------------------------------------
(* What the two position keys of a well-formed queue can hold.              *)
LEMMA MarkOf ==
  ASSUME NEW d \in Databases, WellFormed(d), NEW n \in Names, NEW e \in Ends
  PROVE  \/ d.item[n][e] = NotFound /\ EmptyQueue(d, n)
         \/ /\ d.item[n][e] \in QITEM_MIN_SEQ+1 .. QITEM_MAX_SEQ-1
            /\ ContiguousQueue(d, n)
  <1>1. CASE EmptyQueue(d, n)
    BY <1>1, EndsAreSeqs DEF EmptyQueue
  <1>2. CASE ContiguousQueue(d, n)
    BY <1>2, SeqAssumption DEF ContiguousQueue, Ends
  <1> QED
    BY <1>1, <1>2 DEF WellFormed

(* The batches a refused push leaves behind.                                *)
LEMMA PushMarksType ==
  ASSUME NEW d \in Databases, WellFormed(d), NEW n \in Names, NEW e \in Ends,
         NEW item \in Items
  PROVE  /\ PushMarks(EmptyBatch, n, e, d.item[n][e]) \in Batches
         /\ PushItem(EmptyBatch, n, e, d.item[n][e], item) \in Batches
  <1> DEFINE mark == d.item[n][e]
  <1>1. PushSeq(mark, e) \in Seqs
    <2>1. mark = NotFound \/ mark \in QITEM_MIN_SEQ+1 .. QITEM_MAX_SEQ-1
      BY MarkOf
    <2> HIDE DEF mark
    <2> QED
      BY <2>1, SeqAssumption, EndsAreSeqs DEF PushSeq, Seqs
  <1>2. PushMarks(EmptyBatch, n, e, mark) \in Batches
    <2> HIDE DEF mark
    <2>1. qset_one(EmptyBatch, n, e, PushSeq(mark, e)) \in Batches
      BY <1>1, EmptyBatchType, SetOneType, EndsAreSeqs DEF ItemValues
    <2>2. qset_one(qset_one(EmptyBatch, n, QFRONT_SEQ, QITEM_SEQ_INIT),
                   n, QBACK_SEQ, QITEM_SEQ_INIT) \in Batches
      BY EmptyBatchType, SetOneType, EndsAreSeqs DEF ItemValues, Ends
    <2> QED
      BY <2>1, <2>2 DEF PushMarks
  <1>3. PushItem(EmptyBatch, n, e, mark, item) \in Batches
    <2> HIDE DEF mark
    <2> QED
      BY <1>1, <1>2, SetOneType DEF PushItem, ItemValues
  <1> QED
    BY <1>2, <1>3

(* The keys a pop stages: it deletes the item, and either moves the end     *)
(* inwards or, with the last item, deletes every key of the queue.          *)
LEMMA PopStages ==
  ASSUME NEW d \in Databases, NEW n \in Names, NEW e \in Ends,
         NEW mark \in Seqs \ Ends, PopSeq(mark, e) \in Seqs, qsize(d, n) # 0
  PROVE  LET b == PopBatch(d, EmptyBatch, n, e, mark) IN
         /\ b \in Batches
         /\ OnlyQueue(b, n)
         /\ b.size[n] = IF qsize(d, n) = 1 THEN NotFound ELSE qsize(d, n) - 1
         /\ \A s \in Seqs :
               b.item[n][s] = IF s = mark THEN NotFound
                              ELSE IF qsize(d, n) = 1
                              THEN IF s \in Ends THEN NotFound ELSE NoOp
                              ELSE IF s = e THEN PopSeq(mark, e) ELSE NoOp
  <1> DEFINE p == qdel_one(EmptyBatch, n, mark)
             b == PopBatch(d, EmptyBatch, n, e, mark)
  <1>1. /\ p \in Batches
        /\ OnlyQueue(p, n)
        /\ \A s \in Seqs : p.item[n][s] = IF s = mark THEN NotFound ELSE NoOp
    <2>1. p \in Batches /\ OnlyQueue(p, n)
      BY EmptyBatchType, EmptyBatchOnly, DelOneType, SetOneOnly
    <2> QED
      BY <2>1 DEF EmptyBatch, qdel_one
  <1>2. CASE qsize(d, n) = 1
    <2> DEFINE p1 == [p EXCEPT !.size[n] = NotFound]
               p2 == qdel_one(p1, n, QFRONT_SEQ)
    <2>1. b = qdel_one(p2, n, QBACK_SEQ)
      BY <1>2 DEF PopBatch, incr_qsize
    <2> HIDE DEF p
    <2>2. /\ p1 \in Batches
          /\ OnlyQueue(p1, n)
          /\ p1.size[n] = NotFound
          /\ p1.item = p.item
      <3>1. p1 \in Batches
        BY <1>1, SetSizeType DEF SizeValues
      <3> QED
        BY <1>1, <3>1 DEF OnlyQueue, Batches
    <2> HIDE DEF p1
    <2>3. /\ p2 \in Batches
          /\ OnlyQueue(p2, n)
          /\ p2.size[n] = NotFound
          /\ \A s \in Seqs : p2.item[n][s] = IF s = QFRONT_SEQ THEN NotFound ELSE p1.item[n][s]
      <3>1. p2 \in Batches /\ OnlyQueue(p2, n)
        BY <2>2, DelOneType, SetOneOnly, EndsAreSeqs DEF Ends
      <3> QED
        BY <2>2, <3>1 DEF qdel_one, Batches
    <2> HIDE DEF p2, b
    <2>4. /\ b \in Batches
          /\ OnlyQueue(b, n)
          /\ b.size[n] = NotFound
          /\ \A s \in Seqs : b.item[n][s] = IF s = QBACK_SEQ THEN NotFound ELSE p2.item[n][s]
      <3>1. b \in Batches /\ OnlyQueue(b, n)
        BY <2>1, <2>3, DelOneType, SetOneOnly, EndsAreSeqs DEF Ends
      <3> QED
        BY <2>1, <2>3, <3>1 DEF qdel_one, Batches
    <2>5. \A s \in Seqs : b.item[n][s] = IF s = mark THEN NotFound
                                        ELSE IF s \in Ends THEN NotFound ELSE NoOp
      BY <1>1, <2>2, <2>3, <2>4 DEF Ends
    <2> QED
      BY <1>2, <2>4, <2>5 DEF b
  <1>3. CASE qsize(d, n) # 1
    <2> DEFINE size == qsize(d, n) - 1
               p1 == [p EXCEPT !.size[n] = size]
    <2>1. size \in Nat \ {0}
      BY <1>3, QsizeType
    <2>2. b = qset_one(p1, n, e, PopSeq(mark, e))
      <3>1. qsize(d, n) + -1 = size /\ ~(size <= 0) /\ size > 0
        BY <2>1, QsizeType
      <3>2. incr_qsize(d, p, n, -1) = p1
        <4> HIDE DEF p
        <4> QED
          BY <3>1, Zenon DEF incr_qsize
      <3>3. b = IF size > 0 THEN qset_one(incr_qsize(d, p, n, -1), n, e, PopSeq(mark, e))
                            ELSE incr_qsize(d, p, n, -1)
        BY DEF PopBatch
      <3> QED
        BY <3>1, <3>2, <3>3
    <2> HIDE DEF p, size
    <2>3. /\ p1 \in Batches
          /\ OnlyQueue(p1, n)
          /\ p1.size[n] = size
          /\ p1.item = p.item
      <3>1. p1 \in Batches
        BY <1>1, <2>1, SetSizeType DEF SizeValues
      <3> QED
        BY <1>1, <3>1 DEF OnlyQueue, Batches
    <2> HIDE DEF p1, b
    <2>4. /\ b \in Batches
          /\ OnlyQueue(b, n)
          /\ b.size[n] = size
          /\ \A s \in Seqs : b.item[n][s] = IF s = e THEN PopSeq(mark, e) ELSE p1.item[n][s]
      <3>1. b \in Batches /\ OnlyQueue(b, n)
        BY <2>2, <2>3, SetOneType, SetOneOnly, EndsAreSeqs DEF ItemValues
      <3> QED
        BY <2>2, <2>3, <3>1, EndsAreSeqs DEF qset_one, Batches
    <2>5. \A s \in Seqs : b.item[n][s] = IF s = mark THEN NotFound
                                        ELSE IF s = e THEN PopSeq(mark, e) ELSE NoOp
      BY <1>1, <2>3, <2>4
    <2> QED
      BY <1>3, <2>4, <2>5 DEF b, size
  <1> QED
    BY <1>2, <1>3

(* What a pop makes of a queue that holds items.                            *)
LEMMA PopEffect ==
  ASSUME NEW d \in Databases, WellFormed(d), NEW n \in Names, NEW e \in Ends,
         d.item[n][e] \in Int, qsize(d, n) # 0
  PROVE  LET mark == d.item[n][e]
             b == PopBatch(d, EmptyBatch, n, e, mark)
             a == Applied(b, d)
         IN  /\ b \in Batches
             /\ OnlyQueue(b, n)
             /\ mark \in Seqs \ Ends
             /\ IF qsize(d, n) = 1
                THEN EmptyQueue(a, n)
                ELSE /\ ContiguousQueue(a, n)
                     /\ a.size[n] = qsize(d, n) - 1
                     /\ \A s \in Seqs :
                           a.item[n][s] = IF s = mark THEN NotFound
                                          ELSE IF s = e THEN PopSeq(mark, e)
                                          ELSE d.item[n][s]
  <1> DEFINE mark == d.item[n][e]
             b == PopBatch(d, EmptyBatch, n, e, mark)
             a == Applied(b, d)
             front == d.item[n][QFRONT_SEQ]
             back == d.item[n][QBACK_SEQ]
             Effect == /\ b \in Batches
                       /\ OnlyQueue(b, n)
                       /\ mark \in Seqs \ Ends
                       /\ IF qsize(d, n) = 1
                          THEN EmptyQueue(a, n)
                          ELSE /\ ContiguousQueue(a, n)
                               /\ a.size[n] = qsize(d, n) - 1
                               /\ \A s \in Seqs :
                                     a.item[n][s] = IF s = mark THEN NotFound
                                                    ELSE IF s = e THEN PopSeq(mark, e)
                                                    ELSE d.item[n][s]
  <1>1. ContiguousQueue(d, n)
    BY MarkOf, ValueAssumption
  <1>2. /\ front \in QITEM_MIN_SEQ+1 .. QITEM_MAX_SEQ-1
        /\ back \in front .. QITEM_MAX_SEQ-1
        /\ qsize(d, n) = back - front + 1
        /\ \A s \in Seqs \ Ends : IF s \in front..back THEN d.item[n][s] \in Items
                                                     ELSE d.item[n][s] = NotFound
    BY <1>1, ValueAssumption, SeqAssumption DEF ContiguousQueue, qsize
  <1>3. mark = IF e = QFRONT_SEQ THEN front ELSE back
    BY DEF Ends
  <1>4. mark \in Seqs \ Ends /\ PopSeq(mark, e) \in Seqs
    <2> HIDE DEF mark, front, back
    <2> QED
      BY <1>2, <1>3, SeqAssumption DEF PopSeq, Seqs, Ends, QFRONT_SEQ, QBACK_SEQ
  <1>5. /\ b \in Batches
        /\ OnlyQueue(b, n)
        /\ b.size[n] = IF qsize(d, n) = 1 THEN NotFound ELSE qsize(d, n) - 1
        /\ \A s \in Seqs :
              b.item[n][s] = IF s = mark THEN NotFound
                             ELSE IF qsize(d, n) = 1
                             THEN IF s \in Ends THEN NotFound ELSE NoOp
                             ELSE IF s = e THEN PopSeq(mark, e) ELSE NoOp
    <2> HIDE DEF mark
    <2> QED
      BY <1>4, PopStages DEF b
  <1>6. /\ a.size[n] = b.size[n]
        /\ \A s \in Seqs :
              a.item[n][s] = IF s = mark THEN NotFound
                             ELSE IF qsize(d, n) = 1
                             THEN IF s \in Ends THEN NotFound ELSE d.item[n][s]
                             ELSE IF s = e THEN PopSeq(mark, e) ELSE d.item[n][s]
    <2>1. NoOp # NotFound /\ NoOp \notin Int
      BY ValueAssumption
    <2>2. PopSeq(mark, e) \in Int /\ qsize(d, n) - 1 \in Int
      BY <1>4, QsizeType DEF Seqs
    <2> HIDE DEF b, mark
    <2> QED
      BY <1>5, <2>1, <2>2 DEF Applied
  <1>7. ASSUME qsize(d, n) = 1 PROVE Effect
    <2>1. front = back /\ mark = front
      <3> HIDE DEF front, back, mark
      <3> QED
        BY <1>2, <1>3, <1>7, SeqAssumption
    <2>2. \A s \in Seqs \ Ends : s # front => d.item[n][s] = NotFound
      <3> HIDE DEF front, back
      <3> QED
        BY <1>2, <2>1, SeqAssumption DEF Seqs
    <2>3. EmptyQueue(a, n)
      <3> HIDE DEF a, b, mark, front, back
      <3> QED
        BY <1>5, <1>6, <1>7, <2>1, <2>2 DEF EmptyQueue
    <2> HIDE DEF a, b, mark
    <2> QED
      BY <1>4, <1>5, <1>7, <2>3
  <1>8. ASSUME qsize(d, n) # 1 PROVE Effect
    <2>1. front < back
      <3> HIDE DEF front, back
      <3> QED
        BY <1>2, <1>8, SeqAssumption
    <2>2. a.size[n] = back - front
      <3> HIDE DEF a, b, front, back
      <3> QED
        BY <1>2, <1>5, <1>6, <1>8, SeqAssumption
    <2>3. \A s \in Seqs \ Ends :
             a.item[n][s] = IF s = mark THEN NotFound ELSE d.item[n][s]
      <3> HIDE DEF a, mark
      <3> QED
        BY <1>6, <1>8
    <2>4. ContiguousQueue(a, n)
      <3>1. CASE e = QFRONT_SEQ
        <4>1. mark = front /\ PopSeq(mark, e) = front + 1
          BY <3>1 DEF PopSeq
        <4>2. /\ QFRONT_SEQ \in Seqs /\ QFRONT_SEQ # mark /\ QFRONT_SEQ = e
              /\ QBACK_SEQ \in Seqs /\ QBACK_SEQ # mark /\ QBACK_SEQ # e
          BY <1>4, <3>1, EndsAreSeqs DEF Ends, QFRONT_SEQ, QBACK_SEQ
        <4>3. a.item[n][QFRONT_SEQ] = PopSeq(mark, e) /\ a.item[n][QBACK_SEQ] = back
          <5> HIDE DEF a, mark
          <5> QED
            BY <1>6, <1>8, <4>2
        <4> HIDE DEF a, mark, front, back
        <4> QED
          BY <1>2, <2>1, <2>2, <2>3, <4>1, <4>3, SeqAssumption DEF ContiguousQueue, Seqs
      <3>2. CASE e = QBACK_SEQ
        <4>1. mark = back /\ PopSeq(mark, e) = back - 1
          BY <3>2 DEF PopSeq, QFRONT_SEQ, QBACK_SEQ
        <4>2. /\ QFRONT_SEQ \in Seqs /\ QFRONT_SEQ # mark /\ QFRONT_SEQ # e
              /\ QBACK_SEQ \in Seqs /\ QBACK_SEQ # mark /\ QBACK_SEQ = e
          BY <1>4, <3>2, EndsAreSeqs DEF Ends, QFRONT_SEQ, QBACK_SEQ
        <4>3. a.item[n][QBACK_SEQ] = PopSeq(mark, e) /\ a.item[n][QFRONT_SEQ] = front
          <5> HIDE DEF a, mark
          <5> QED
            BY <1>6, <1>8, <4>2
        <4> HIDE DEF a, mark, front, back
        <4> QED
          BY <1>2, <2>1, <2>2, <2>3, <4>1, <4>3, SeqAssumption DEF ContiguousQueue, Seqs
      <3> QED
        BY <3>1, <3>2 DEF Ends
    <2>5. a.size[n] = qsize(d, n) - 1
      BY <1>5, <1>6, <1>8
    <2> HIDE DEF a, b, mark
    <2> QED
      BY <1>4, <1>5, <1>6, <1>8, <2>4, <2>5
  <1>9. Effect
    BY <1>7, <1>8
  <1> QED
    BY <1>9

LEMMA PopPreserves ==
  ASSUME NEW d \in Databases, WellFormed(d), NEW n \in Names, NEW e \in Ends,
         d.item[n][e] \in Int, qsize(d, n) # 0
  PROVE  LET b == PopBatch(d, EmptyBatch, n, e, d.item[n][e]) IN
         b \in Batches /\ WellFormed(Applied(b, d))
  BY PopEffect, OthersKept

-----------------------------------------------------------------------------
(* The items of a well-formed queue, as a sequence.                         *)

LEMMA ContentsOf ==
  ASSUME NEW d \in Databases, WellFormed(d), NEW n \in Names
  PROVE  /\ Contents(d, n) \in Seq(Items)
         /\ Len(Contents(d, n)) = qsize(d, n)
         /\ EmptyQueue(d, n) => qsize(d, n) = 0 /\ Contents(d, n) = <<>>
         /\ ContiguousQueue(d, n) =>
               /\ qsize(d, n) # 0 /\ Contents(d, n) # <<>>
               /\ qsize(d, n) = d.item[n][QBACK_SEQ] - d.item[n][QFRONT_SEQ] + 1
               /\ \A i \in 1..qsize(d, n) :
                     /\ Contents(d, n)[i] = d.item[n][d.item[n][QFRONT_SEQ] + i - 1]
                     /\ d.item[n][QFRONT_SEQ] + i - 1 \in Seqs \ Ends
  <1> DEFINE front == d.item[n][QFRONT_SEQ]
             back == d.item[n][QBACK_SEQ]
             size == qsize(d, n)
             c == Contents(d, n)
  <1>1. CASE EmptyQueue(d, n)
    <2>1. size = 0
      BY <1>1 DEF EmptyQueue, qsize
    <2>2. c = <<>>
      <3>1. c = [i \in 1..0 |-> d.item[n][front + i - 1]]
        BY <2>1 DEF Contents
      <3> QED
        BY <3>1
    <2>3. ~ContiguousQueue(d, n)
      BY <1>1, SeqAssumption, ValueAssumption DEF EmptyQueue, ContiguousQueue
    <2> QED
      BY <2>1, <2>2, <2>3
  <1>2. CASE ContiguousQueue(d, n)
    <2>1. /\ front \in QITEM_MIN_SEQ+1 .. QITEM_MAX_SEQ-1
          /\ back \in front .. QITEM_MAX_SEQ-1
          /\ size = back - front + 1
          /\ \A s \in Seqs \ Ends : s \in front..back => d.item[n][s] \in Items
      BY <1>2, ValueAssumption, SeqAssumption DEF ContiguousQueue, qsize
    <2>2. size \in Nat \ {0}
      BY <2>1, SeqAssumption
    <2>3. ASSUME NEW i \in 1..size
          PROVE  front + i - 1 \in Seqs \ Ends /\ d.item[n][front + i - 1] \in Items
      <3> HIDE DEF front, back, size
      <3>1. front + i - 1 \in front..back
        BY <2>1, <2>2, SeqAssumption
      <3>2. front + i - 1 \in Seqs \ Ends
        BY <2>1, <3>1, SeqAssumption DEF Seqs, Ends, QFRONT_SEQ, QBACK_SEQ
      <3> QED
        BY <2>1, <3>1, <3>2
    <2>4. c = [i \in 1..size |-> d.item[n][front + i - 1]]
      BY DEF Contents
    <2> HIDE DEF c, size, front
    <2>5. c \in [1..size -> Items]
      BY <2>3, <2>4
    <2>6. c \in Seq(Items) /\ Len(c) = size
      BY <2>2, <2>5
    <2>7. ~EmptyQueue(d, n)
      BY <1>2, SeqAssumption, ValueAssumption DEF EmptyQueue, ContiguousQueue
    <2>8. c # <<>>
      BY <2>2, <2>6
    <2>9. \A i \in 1..size : c[i] = d.item[n][front + i - 1]
      BY <2>4
    <2> QED
      BY <2>1, <2>2, <2>3, <2>6, <2>7, <2>8, <2>9 DEF c, size, front
  <1> QED
    BY <1>1, <1>2 DEF WellFormed

(* A batch that touches one queue leaves the items of the others.           *)
LEMMA OthersContents ==
  ASSUME NEW d \in Databases, NEW b \in Batches, NEW n \in Names, OnlyQueue(b, n),
         NEW m \in Names \ {n}, WellFormed(d)
  PROVE  Contents(Applied(b, d), m) = Contents(d, m)
  <1> DEFINE a == Applied(b, d)
  <1>1. a.size[m] = d.size[m] /\ \A s \in Seqs : a.item[m][s] = d.item[m][s]
    BY DEF Applied, OnlyQueue
  <1> HIDE DEF a
  <1>2. qsize(a, m) = qsize(d, m)
    BY <1>1 DEF qsize
  <1>3. a.item[m][QFRONT_SEQ] = d.item[m][QFRONT_SEQ]
    BY <1>1, EndsAreSeqs DEF Ends
  <1>4. \A i \in 1..qsize(d, m) :
           a.item[m][d.item[m][QFRONT_SEQ] + i - 1] = d.item[m][d.item[m][QFRONT_SEQ] + i - 1]
    BY <1>1, ContentsOf DEF WellFormed
  <1>5. Contents(a, m) = Contents(d, m)
    BY <1>2, <1>3, <1>4 DEF Contents
  <1> QED
    BY <1>5 DEF a

(* A push puts its item at its end of the queue, ...                        *)
LEMMA PushContents ==
  ASSUME NEW d \in Databases, WellFormed(d), NEW n \in Names, NEW e \in Ends,
         NEW item \in Items, ~SeqOutOfRange(PushSeq(d.item[n][e], e))
  PROVE  Contents(Applied(PushBatch(d, EmptyBatch, n, e, d.item[n][e], item), d), n)
            = IF e = QFRONT_SEQ THEN <<item>> \o Contents(d, n)
                                ELSE Append(Contents(d, n), item)
  <1> DEFINE mark == d.item[n][e]
             seq == PushSeq(mark, e)
             b == PushBatch(d, EmptyBatch, n, e, mark, item)
             a == Applied(b, d)
             front == d.item[n][QFRONT_SEQ]
             back == d.item[n][QBACK_SEQ]
             q == Contents(d, n)
             r == Contents(a, n)
             size == qsize(d, n)
             pushed == IF e = QFRONT_SEQ THEN <<item>> \o q ELSE Append(q, item)
  <1>1. /\ b \in Batches
        /\ a.size[n] = size + 1
        /\ seq \in Seqs \ Ends
        /\ \A s \in Seqs :
              a.item[n][s] = IF s = seq THEN item
                             ELSE IF s = e \/ (mark = NotFound /\ s \in Ends)
                             THEN seq ELSE d.item[n][s]
        /\ ContiguousQueue(a, n)
    BY PushEffect
  <1>2. a \in Databases /\ WellFormed(a)
    BY <1>1, AppliedType, PushPreserves
  <1>3. /\ q \in Seq(Items) /\ Len(q) = size /\ size \in Nat
        /\ qsize(a, n) = size + 1
        /\ r \in Seq(Items) /\ Len(r) = size + 1
        /\ \A i \in 1..size + 1 : r[i] = a.item[n][a.item[n][QFRONT_SEQ] + i - 1]
        /\ \A i \in 1..size + 1 : a.item[n][QFRONT_SEQ] + i - 1 \in Seqs \ Ends
    <2>1. size \in Nat
      BY QsizeType
    <2>2. qsize(a, n) = size + 1
      <3> HIDE DEF a, size
      <3> QED
        BY <1>1, <2>1, ValueAssumption DEF qsize
    <2> HIDE DEF a, size
    <2> QED
      BY <1>1, <1>2, <2>1, <2>2, ContentsOf DEF a, size
  <1>4. /\ pushed \in Seq(Items)
        /\ Len(pushed) = size + 1
        /\ \A i \in 1..size + 1 :
              pushed[i] = IF e = QFRONT_SEQ THEN IF i = 1 THEN item ELSE q[i - 1]
                                            ELSE IF i = size + 1 THEN item ELSE q[i]
    <2> HIDE DEF q, size
    <2>1. CASE e = QFRONT_SEQ
      <3>1. <<item>> \in Seq(Items) /\ Len(<<item>>) = 1 /\ <<item>>[1] = item
        OBVIOUS
      <3>2. \A i \in 1..1 + size : i <= 1 => i = 1
        BY <1>3
      <3> QED
        BY <1>3, <2>1, <3>1, <3>2, ConcatProperties
    <2>2. CASE e # QFRONT_SEQ
      BY <1>3, <2>2, AppendProperties
    <2> QED
      BY <2>1, <2>2
  <1>5. ASSUME NEW i \in 1..size + 1 PROVE r[i] = pushed[i]
    <2>1. CASE EmptyQueue(d, n)
      <3>1. size = 0 /\ mark = NotFound
        BY <2>1, ContentsOf, EndsAreSeqs DEF EmptyQueue
      <3>2. a.item[n][QFRONT_SEQ] = seq
        <4> HIDE DEF a, mark, seq
        <4> QED
          BY <1>1, <3>1, EndsAreSeqs DEF Ends
      <3>3. i = 1 /\ r[i] = a.item[n][seq + 1 - 1] /\ seq + 1 - 1 = seq
        <4> HIDE DEF a, r, seq, size
        <4> QED
          BY <1>1, <1>3, <3>1, <3>2 DEF Seqs
      <3> HIDE DEF a, r, seq, size, pushed, q, mark
      <3> QED
        BY <1>1, <1>4, <3>1, <3>3
    <2>2. CASE ContiguousQueue(d, n)
      <3>1. /\ front \in Int /\ back \in Int
            /\ size = back - front + 1
            /\ \A j \in 1..size : /\ q[j] = d.item[n][front + j - 1]
                                  /\ front + j - 1 \in Seqs \ Ends
        BY <2>2, ContentsOf DEF ContiguousQueue
      <3>2. /\ mark = IF e = QFRONT_SEQ THEN front ELSE back
            /\ mark # NotFound
            /\ seq = IF e = QFRONT_SEQ THEN front - 1 ELSE back + 1
        <4>1. mark = IF e = QFRONT_SEQ THEN front ELSE back
          BY DEF Ends
        <4> HIDE DEF mark, front, back
        <4> QED
          BY <3>1, <4>1, ValueAssumption DEF PushSeq, seq
      <3>3. a.item[n][QFRONT_SEQ] = IF e = QFRONT_SEQ THEN front - 1 ELSE front
        <4>1. QFRONT_SEQ \in Seqs /\ QFRONT_SEQ \in Ends
          BY EndsAreSeqs DEF Ends
        <4> HIDE DEF a, mark, seq, front
        <4> QED
          BY <1>1, <3>2, <4>1 DEF front
      <3> DEFINE p == a.item[n][QFRONT_SEQ] + i - 1
      <3>4. r[i] = a.item[n][p] /\ p \in Seqs \ Ends
        BY <1>3
      <3>5. r[i] = IF p = seq THEN item ELSE d.item[n][p]
        <4> HIDE DEF a, r, p, mark, seq
        <4> QED
          BY <1>1, <3>2, <3>4
      <3>6. CASE e = QFRONT_SEQ
        <4>1. p = front + i - 2 /\ seq = front - 1
          <5> HIDE DEF a, front, seq
          <5> QED
            BY <1>3, <3>1, <3>2, <3>3, <3>6
        <4>2. CASE i = 1
          <5>1. p = seq
            <6> HIDE DEF front, seq, p
            <6> QED
              BY <3>1, <4>1, <4>2
          <5> HIDE DEF a, front, seq, p, r, size, q, pushed
          <5> QED
            BY <1>4, <3>5, <3>6, <4>2, <5>1
        <4>3. CASE i # 1
          <5>1. i - 1 \in 1..size /\ p # seq /\ front + (i - 1) - 1 = p
            <6> HIDE DEF a, front, seq, p, size
            <6> QED
              BY <1>3, <3>1, <4>1, <4>3
          <5>2. pushed[i] = q[i - 1]
            <6> HIDE DEF pushed, q, size
            <6> QED
              BY <1>4, <3>6, <4>3
          <5> HIDE DEF a, front, seq, p, r, size, q, pushed
          <5> QED
            BY <3>1, <3>5, <5>1, <5>2
        <4> QED
          BY <4>2, <4>3
      <3>7. CASE e # QFRONT_SEQ
        <4>1. p = front + i - 1 /\ seq = back + 1
          <5> HIDE DEF a, front, back, seq
          <5> QED
            BY <1>3, <3>1, <3>2, <3>3, <3>7
        <4>2. CASE i = size + 1
          <5>1. p = seq
            <6> HIDE DEF a, front, back, seq, p, size
            <6> QED
              BY <3>1, <4>1, <4>2
          <5> HIDE DEF a, front, seq, p, r, size, q, pushed
          <5> QED
            BY <1>4, <3>5, <3>7, <4>2, <5>1
        <4>3. CASE i # size + 1
          <5>1. i \in 1..size /\ p # seq
            <6> HIDE DEF a, front, back, seq, p, size
            <6> QED
              BY <1>3, <3>1, <4>1, <4>3
          <5>2. pushed[i] = q[i]
            <6> HIDE DEF pushed, q, size
            <6> QED
              BY <1>4, <3>7, <4>3
          <5> HIDE DEF a, front, seq, p, r, size, q, pushed
          <5> QED
            BY <3>1, <3>5, <4>1, <5>1, <5>2
        <4> QED
          BY <4>2, <4>3
      <3> QED
        BY <3>6, <3>7
    <2> QED
      BY <2>1, <2>2 DEF WellFormed
  <1>6. r = pushed
    <2> HIDE DEF r, pushed, size
    <2> QED
      BY <1>3, <1>4, <1>5, SeqEqual
  <1> QED
    BY <1>6

(* ... and a pop takes away the item there.                                 *)
LEMMA PopContents ==
  ASSUME NEW d \in Databases, WellFormed(d), NEW n \in Names, NEW e \in Ends,
         d.item[n][e] \in Int, qsize(d, n) # 0
  PROVE  LET q == Contents(d, n)
         IN  /\ q # <<>>
             /\ d.item[n][d.item[n][e]] = IF e = QFRONT_SEQ THEN Head(q) ELSE q[Len(q)]
             /\ Contents(Applied(PopBatch(d, EmptyBatch, n, e, d.item[n][e]), d), n)
                   = IF e = QFRONT_SEQ THEN Tail(q) ELSE SubSeq(q, 1, Len(q) - 1)
  <1> DEFINE mark == d.item[n][e]
             b == PopBatch(d, EmptyBatch, n, e, mark)
             a == Applied(b, d)
             front == d.item[n][QFRONT_SEQ]
             back == d.item[n][QBACK_SEQ]
             q == Contents(d, n)
             r == Contents(a, n)
             size == qsize(d, n)
             popped == IF e = QFRONT_SEQ THEN Tail(q) ELSE SubSeq(q, 1, Len(q) - 1)
  <1>1. ContiguousQueue(d, n)
    BY MarkOf, ValueAssumption
  <1>2. /\ front \in Int /\ back \in Int
        /\ size = back - front + 1 /\ size \in Nat \ {0}
        /\ q \in Seq(Items) /\ Len(q) = size /\ q # <<>>
        /\ \A j \in 1..size : q[j] = d.item[n][front + j - 1]
    BY <1>1, ContentsOf, QsizeType DEF ContiguousQueue
  <1>3. mark = IF e = QFRONT_SEQ THEN front ELSE back
    BY DEF Ends
  <1>4. d.item[n][mark] = IF e = QFRONT_SEQ THEN Head(q) ELSE q[Len(q)]
    <2>1. Head(q) = q[1]
      BY <1>2
    <2>2. /\ 1 \in 1..size /\ size \in 1..size
          /\ front + 1 - 1 = front /\ front + size - 1 = back
      <3> HIDE DEF front, back, size
      <3> QED
        BY <1>2
    <2>3. q[1] = d.item[n][front]
      <3> HIDE DEF q, size, front
      <3> QED
        BY <1>2, <2>2
    <2>4. q[size] = d.item[n][back]
      <3> HIDE DEF q, size, front, back
      <3> QED
        BY <1>2, <2>2
    <2> HIDE DEF q, size, front, back, mark
    <2> QED
      BY <1>2, <1>3, <2>1, <2>3, <2>4
  <1>5. /\ b \in Batches
        /\ IF size = 1 THEN EmptyQueue(a, n)
           ELSE /\ ContiguousQueue(a, n)
                /\ a.size[n] = size - 1
                /\ mark \in Seqs \ Ends
                /\ \A s \in Seqs :
                      a.item[n][s] = IF s = mark THEN NotFound
                                     ELSE IF s = e THEN PopSeq(mark, e)
                                     ELSE d.item[n][s]
    BY PopEffect
  <1>6. a \in Databases /\ WellFormed(a)
    BY <1>5, AppliedType, PopPreserves
  <1>7. /\ popped \in Seq(Items)
        /\ Len(popped) = size - 1
        /\ \A i \in 1..size - 1 : popped[i] = IF e = QFRONT_SEQ THEN q[i + 1] ELSE q[i]
    <2> HIDE DEF q, size
    <2>1. CASE e = QFRONT_SEQ
      BY <1>2, <2>1, HeadTailProperties
    <2>2. CASE e # QFRONT_SEQ
      <3>1. \A i \in 1..size - 1 : q[i] \in Items
        BY <1>2, ElementOfSeq
      <3>2. /\ SubSeq(q, 1, size - 1) \in Seq(Items)
            /\ Len(SubSeq(q, 1, size - 1)) = IF 1 <= size - 1 THEN size - 1 - 1 + 1 ELSE 0
            /\ \A i \in 1..size - 1 - 1 + 1 : SubSeq(q, 1, size - 1)[i] = q[1 + i - 1]
        BY <1>2, <3>1, SubSeqProperties
      <3>3. /\ Len(SubSeq(q, 1, size - 1)) = size - 1
            /\ \A i \in 1..size - 1 : i \in 1..size - 1 - 1 + 1 /\ 1 + i - 1 = i
        BY <1>2, <3>2
      <3>4. popped = SubSeq(q, 1, size - 1)
        BY <1>2, <2>2
      <3> QED
        BY <2>2, <3>2, <3>3, <3>4
    <2> QED
      BY <2>1, <2>2
  <1>8. CASE size = 1
    <2>1. r = <<>>
      BY <1>5, <1>6, <1>8, ContentsOf
    <2>2. Len(popped) = 0
      <3> HIDE DEF popped, size
      <3> QED
        BY <1>7, <1>8
    <2>3. popped = <<>>
      <3> HIDE DEF popped
      <3> QED
        BY <1>7, <2>2, EmptySeq
    <2> HIDE DEF r, q, popped
    <2> QED
      BY <1>2, <1>4, <2>1, <2>3 DEF r, q, popped
  <1>9. CASE size # 1
    <2>1. /\ a.item[n][QFRONT_SEQ] = IF e = QFRONT_SEQ THEN front + 1 ELSE front
      <3>1. QFRONT_SEQ \in Seqs /\ QFRONT_SEQ \in Ends
        BY EndsAreSeqs DEF Ends
      <3>2. e = QFRONT_SEQ => PopSeq(mark, e) = front + 1
        <4> HIDE DEF mark, front
        <4> QED
          BY <1>3 DEF PopSeq
      <3> HIDE DEF a, mark, front, size
      <3> QED
        BY <1>5, <1>9, <3>1, <3>2 DEF front
    <2>2. /\ qsize(a, n) = size - 1
          /\ r \in Seq(Items) /\ Len(r) = size - 1
          /\ \A i \in 1..size - 1 : /\ r[i] = a.item[n][a.item[n][QFRONT_SEQ] + i - 1]
                                    /\ a.item[n][QFRONT_SEQ] + i - 1 \in Seqs \ Ends
      <3>1. qsize(a, n) = size - 1
        <4> HIDE DEF a, size
        <4> QED
          BY <1>2, <1>5, <1>9, ValueAssumption DEF qsize
      <3> HIDE DEF a, size
      <3> QED
        BY <1>5, <1>6, <1>9, <3>1, ContentsOf
    <2>3. ASSUME NEW i \in 1..size - 1 PROVE r[i] = popped[i]
      <3> DEFINE p == a.item[n][QFRONT_SEQ] + i - 1
      <3>1. r[i] = a.item[n][p] /\ p \in Seqs \ Ends
        BY <2>2
      <3>2. p = (IF e = QFRONT_SEQ THEN front + (i + 1) ELSE front + i) - 1 /\ p # mark
        <4> HIDE DEF a, mark, front, back, size
        <4> QED
          BY <1>2, <1>3, <2>1
      <3>3. r[i] = d.item[n][p]
        <4>1. e \in Ends
          OBVIOUS
        <4> HIDE DEF a, mark, p, r, size
        <4> QED
          BY <1>5, <1>9, <3>1, <3>2, <4>1
      <3>4. i \in 1..size /\ i + 1 \in 1..size
        <4> HIDE DEF size
        <4> QED
          BY <1>2
      <3> HIDE DEF a, p, r, size, q, popped, front, mark
      <3>5. popped[i] = IF e = QFRONT_SEQ THEN q[i + 1] ELSE q[i]
        BY <1>7
      <3>6. CASE e = QFRONT_SEQ
        BY <1>2, <3>2, <3>3, <3>4, <3>5, <3>6
      <3>7. CASE e # QFRONT_SEQ
        BY <1>2, <3>2, <3>3, <3>4, <3>5, <3>7
      <3> QED
        BY <3>6, <3>7
    <2>4. r = popped
      <3> HIDE DEF r, popped, size
      <3> QED
        BY <1>2, <1>7, <2>2, <2>3, SeqEqual
    <2> HIDE DEF r, q, popped
    <2> QED
      BY <1>2, <1>4, <2>4 DEF r, q, popped
  <1> QED
    BY <1>8, <1>9

-----------------------------------------------------------------------------
(* The inductive invariant: neither half of it is inductive alone.  A push  *)
(* keeps the kinds of the keys only because it starts from a position that  *)
(* lies inside the range, and a well-formed queue needs keys of the right   *)
(* kinds.                                                                   *)
StoreInv == TypeOK /\ QueuesWellFormed

LEMMA StoreInitInv == StoreInit => StoreInv
  <1> SUFFICES ASSUME StoreInit PROVE StoreInv
    OBVIOUS
  <1>1. EmptyDb \in Databases
    BY DEF EmptyDb, Databases, ItemValues, SizeValues
  <1>2. WellFormed(EmptyDb)
    BY DEF WellFormed, EmptyQueue, EmptyDb
  <1> QED
    BY <1>1, <1>2, EmptyBatchType DEF StoreInit, StoreInv, TypeOK, QueuesWellFormed

LEMMA PushInv ==
  ASSUME StoreInv, NEW n \in Names, NEW e \in Ends, NEW item \in Items, Push(n, e, item)
  PROVE  StoreInv'
  <1> USE DEF StoreInv, TypeOK, QueuesWellFormed, Refused
  <1>1. CASE QPush(n, e, item)
    <2> DEFINE b == PushBatch(db, EmptyBatch, n, e, db.item[n][e], item)
    <2>1. b \in Batches /\ WellFormed(Applied(b, db))
      BY <1>1, PushPreserves DEF QPush, Mark
    <2>2. batch' = b /\ db' = Applied(b, db) /\ disk' = disk
      BY <1>1 DEF QPush, CommitBatch, Mark, begin
    <2> HIDE DEF b
    <2> QED
      BY <2>1, <2>2, AppliedType
  <1>2. CASE QPushFull(n, e, item)
    BY <1>2, PushMarksType DEF QPushFull, Mark, begin
  <1>3. CASE QPushError(n, e, item)
    <2>1. /\ batch' \in Batches
          /\ db' = db /\ disk' = disk
      BY <1>3, PushMarksType, PushPreserves, EmptyBatchType DEF QPushError, Mark, begin
    <2> QED
      BY <2>1
  <1> QED
    BY <1>1, <1>2, <1>3 DEF Push

LEMMA PopInv ==
  ASSUME StoreInv, NEW n \in Names, NEW e \in Ends, Pop(n, e)
  PROVE  StoreInv'
  <1> USE DEF StoreInv, TypeOK, QueuesWellFormed, Refused
  <1>1. CASE QPop(n, e)
    <2> DEFINE b == PopBatch(db, EmptyBatch, n, e, db.item[n][e])
    <2>1. b \in Batches /\ WellFormed(Applied(b, db))
      BY <1>1, PopPreserves DEF QPop, Mark
    <2>2. batch' = b /\ db' = Applied(b, db) /\ disk' = disk
      BY <1>1 DEF QPop, CommitBatch, Mark, begin
    <2> HIDE DEF b
    <2> QED
      BY <2>1, <2>2, AppliedType
  <1>2. CASE QPopEmpty(n, e)
    BY <1>2, EmptyBatchType DEF QPopEmpty, begin
  <1>3. CASE QPopError(n, e)
    <2>1. batch' \in Batches
      <3>1. CASE batch' = EmptyBatch
        BY <3>1, EmptyBatchType
      <3>2. CASE batch' # EmptyBatch
        <4>1. db.item[n][e] \in Int /\ ContiguousQueue(db, n)
          BY <1>3, <3>2, MarkOf, ValueAssumption DEF QPopError, Mark, begin
        <4>2. db.item[n][e] \in Seqs
          BY <4>1, MarkOf, ValueAssumption, SeqAssumption DEF Seqs
        <4>3. qsize(db, n) # 0
          BY <4>1, ValueAssumption, SeqAssumption DEF ContiguousQueue, qsize
        <4>4. /\ qdel_one(EmptyBatch, n, db.item[n][e]) \in Batches
              /\ PopBatch(db, EmptyBatch, n, e, db.item[n][e]) \in Batches
          BY <4>1, <4>2, <4>3, DelOneType, EmptyBatchType, PopPreserves
        <4> QED
          BY <1>3, <4>4, EmptyBatchType DEF QPopError, Mark, begin
      <3> QED
        BY <3>1, <3>2
    <2>2. db' = db /\ disk' = disk
      BY <1>3 DEF QPopError
    <2> QED
      BY <2>1, <2>2
  <1> QED
    BY <1>1, <1>2, <1>3 DEF Pop

LEMMA StoreNextInv == StoreInv /\ [StoreNext]_storeVars => StoreInv'
  <1> SUFFICES ASSUME StoreInv, [StoreNext]_storeVars PROVE StoreInv'
    OBVIOUS
  <1>1. CASE Sync
    BY <1>1 DEF Sync, StoreInv, TypeOK, QueuesWellFormed
  <1>2. CASE Restart
    BY <1>2, EmptyBatchType DEF Restart, StoreInv, TypeOK, QueuesWellFormed
  <1>3. CASE UNCHANGED storeVars
    BY <1>3 DEF storeVars, StoreInv, TypeOK, QueuesWellFormed
  <1> QED
    BY <1>1, <1>2, <1>3, PushInv, PopInv DEF StoreNext

(* Every key of the store keeps its kind, whatever the operations, errors   *)
(* and crashes: no item is stored under a position key, no position leaves  *)
(* the range of sequence numbers, and no stored size is 0.                  *)
THEOREM TypeCorrect == StoreSpec => []TypeOK
  <1>1. StoreInv => TypeOK
    BY DEF StoreInv
  <1> QED
    BY StoreInitInv, StoreNextInv, <1>1, PTL DEF StoreSpec

(* Every stored queue is contiguous between its two ends and counted by its *)
(* size key, or has no key at all, after every operation of t_queue.cpp and *)
(* in every state a crash falls back to.                                    *)
THEOREM WellFormedQueues == StoreSpec => []QueuesWellFormed
  <1>1. StoreInv => QueuesWellFormed
    BY DEF StoreInv
  <1> QED
    BY StoreInitInv, StoreNextInv, <1>1, PTL DEF StoreSpec

-----------------------------------------------------------------------------
(* The refinement: every step of the store is a step of the deques, or      *)
(* leaves them alone.                                                       *)

(* The queues after a commit that touches the queue n only.                 *)
LEMMA CommitContents ==
  ASSUME NEW d \in Databases, WellFormed(d), NEW b \in Batches, NEW n \in Names,
         OnlyQueue(b, n)
  PROVE  [m \in Names |-> Contents(Applied(b, d), m)]
            = [[m \in Names |-> Contents(d, m)] EXCEPT ![n] = Contents(Applied(b, d), n)]
  BY OthersContents

LEMMA StoreInitImplements == StoreInit => Deque!Init
  <1> SUFFICES ASSUME StoreInit PROVE Deque!Init
    OBVIOUS
  <1>1. \A n \in Names : Contents(EmptyDb, n) = <<>>
    BY DEF Contents, qsize, EmptyDb
  <1> QED
    BY <1>1 DEF StoreInit, Deque!Init, NoResult, Deque!NoResult

LEMMA StorePushImplements ==
  ASSUME StoreInv, NEW n \in Names, NEW e \in Ends, NEW item \in Items, QPush(n, e, item)
  PROVE  Deque!Push(n, e, item)
  <1> DEFINE b == PushBatch(db, EmptyBatch, n, e, db.item[n][e], item)
             q == Contents(db, n)
  <1>1. /\ db \in Databases /\ WellFormed(db)
        /\ ~SeqOutOfRange(PushSeq(db.item[n][e], e))
        /\ db' = Applied(b, db) /\ disk' = disk
        /\ ret' = Result("push", n, e, item, qsize(db, n) + 1)
    BY DEF StoreInv, TypeOK, QueuesWellFormed, QPush, Mark, begin, CommitBatch
  <1>2. b \in Batches /\ OnlyQueue(b, n)
    BY <1>1, PushEffect
  <1>3. Contents(Applied(b, db), n) = Deque!Pushed(q, e, item)
    BY <1>1, PushContents DEF Deque!Pushed
  <1> HIDE DEF b
  <1>4. [m \in Names |-> Contents(db', m)]
           = [[m \in Names |-> Contents(db, m)] EXCEPT ![n] = Deque!Pushed(q, e, item)]
    BY <1>1, <1>2, <1>3, CommitContents
  <1>5. Len(q) = qsize(db, n)
    BY <1>1, ContentsOf
  <1> QED
    BY <1>1, <1>4, <1>5 DEF Deque!Push, Result, Deque!Result

LEMMA StorePopImplements ==
  ASSUME StoreInv, NEW n \in Names, NEW e \in Ends, QPop(n, e)
  PROVE  Deque!Pop(n, e)
  <1> DEFINE b == PopBatch(db, EmptyBatch, n, e, db.item[n][e])
             q == Contents(db, n)
  <1>1. /\ db \in Databases /\ WellFormed(db)
        /\ db.item[n][e] \in Int /\ qsize(db, n) # 0
        /\ db' = Applied(b, db) /\ disk' = disk
        /\ ret' = Result("pop", n, e, db.item[n][db.item[n][e]], 1)
    BY DEF StoreInv, TypeOK, QueuesWellFormed, QPop, Mark, begin, CommitBatch
  <1>2. b \in Batches /\ OnlyQueue(b, n)
    BY <1>1, PopEffect
  <1>3. /\ q # <<>>
        /\ db.item[n][db.item[n][e]] = Deque!Peeked(q, e)
        /\ Contents(Applied(b, db), n) = Deque!Popped(q, e)
    BY <1>1, PopContents DEF Deque!Popped, Deque!Peeked
  <1> HIDE DEF b
  <1>4. [m \in Names |-> Contents(db', m)]
           = [[m \in Names |-> Contents(db, m)] EXCEPT ![n] = Deque!Popped(q, e)]
    BY <1>1, <1>2, <1>3, CommitContents
  <1> QED
    BY <1>1, <1>3, <1>4 DEF Deque!Pop, Result, Deque!Result

LEMMA StorePopEmptyImplements ==
  ASSUME StoreInv, NEW n \in Names, NEW e \in Ends, QPopEmpty(n, e)
  PROVE  Deque!PopEmpty(n, e)
  <1>1. /\ db \in Databases /\ WellFormed(db)
        /\ \/ db.item[n][e] = NotFound
           \/ db.item[n][e] \in Int /\ db.item[n][db.item[n][e]] = NotFound
        /\ db' = db /\ disk' = disk
        /\ ret' = Result("pop", n, e, NotFound, 0)
    BY DEF StoreInv, TypeOK, QueuesWellFormed, QPopEmpty, Mark
  <1>2. Contents(db, n) = <<>>
    <2>1. CASE EmptyQueue(db, n)
      BY <1>1, <2>1, ContentsOf
    <2>2. CASE ContiguousQueue(db, n)
      <3>1. db.item[n][e] \in Int /\ qsize(db, n) # 0
        BY <1>1, <2>2, ContentsOf, ValueAssumption, EndsAreSeqs DEF ContiguousQueue, Ends
      <3>2. db.item[n][db.item[n][e]] \in Items
        <4>1. /\ Contents(db, n) \in Seq(Items) /\ Contents(db, n) # <<>>
          BY <1>1, <2>2, ContentsOf
        <4> QED
          BY <1>1, <3>1, <4>1, PopContents, HeadTailProperties, ElementOfSeq, LenProperties
      <3> QED
        BY <1>1, <3>1, <3>2, ValueAssumption
    <2> QED
      BY <1>1, <2>1, <2>2 DEF WellFormed
  <1> QED
    BY <1>1, <1>2 DEF Deque!PopEmpty, Result, Deque!Result

LEMMA StoreNextImplements ==
  StoreInv /\ [StoreNext]_storeVars => [Deque!Next]_(Deque!vars)
  <1> SUFFICES ASSUME StoreInv, [StoreNext]_storeVars PROVE [Deque!Next]_(Deque!vars)
    OBVIOUS
  <1>1. ASSUME NEW n \in Names, NEW e \in Ends, NEW item \in Items, Push(n, e, item)
        PROVE  Deque!Next
    <2>1. CASE QPush(n, e, item)
      BY <2>1, StorePushImplements DEF Deque!Next, Ends
    <2>2. CASE QPushFull(n, e, item) \/ QPushError(n, e, item)
      <3>1. Deque!Refuse("push", n, e, item)
        BY <2>2 DEF QPushFull, QPushError, Refused, Deque!Refuse, Result, Deque!Result
      <3> QED
        BY <3>1 DEF Deque!Next, Ends
    <2> QED
      BY <1>1, <2>1, <2>2 DEF Push
  <1>2. ASSUME NEW n \in Names, NEW e \in Ends, Pop(n, e)
        PROVE  Deque!Next
    <2>1. CASE QPop(n, e)
      BY <2>1, StorePopImplements DEF Deque!Next, Ends
    <2>2. CASE QPopEmpty(n, e)
      BY <2>2, StorePopEmptyImplements DEF Deque!Next, Ends
    <2>3. CASE QPopError(n, e)
      <3>1. Deque!Refuse("pop", n, e, NotFound)
        BY <2>3 DEF QPopError, Refused, Deque!Refuse, Result, Deque!Result
      <3> QED
        BY <3>1 DEF Deque!Next, Ends
    <2> QED
      BY <1>2, <2>1, <2>2, <2>3 DEF Pop
  <1>3. CASE Sync
    BY <1>3 DEF Sync, Deque!Sync, Deque!Next
  <1>4. CASE Restart
    <2>1. Deque!Restart
      BY <1>4 DEF Restart, Deque!Restart, NoResult, Deque!NoResult
    <2> QED
      BY <2>1 DEF Deque!Next
  <1>5. CASE UNCHANGED storeVars
    BY <1>5 DEF storeVars, Deque!vars
  <1> QED
    BY <1>1, <1>2, <1>3, <1>4, <1>5 DEF StoreNext

(* The operations of t_queue.cpp implement double-ended queues: each takes  *)
(* effect on the right end of the right queue and returns the right item    *)
(* and size, an error has no effect, and a restart brings back the queues   *)
(* as they were at the end of some operation.                               *)
THEOREM StoreImplementsDeque == StoreSpec => ImplementsDeque
  <1> QED
    BY StoreInitInv, StoreNextInv, StoreInitImplements, StoreNextImplements, PTL
    DEF StoreSpec, ImplementsDeque, Deque!Spec

-----------------------------------------------------------------------------
(* QueueService: the writer threads.  A call is one of these records, and   *)
(* keeps count of the items it has pushed or popped ...                     *)

Calls == [pc : {"begin", "mark", "item", "size", "commit", "unlock", "reply"},
          op : {"push", "pop"}, name : Names, end : Ends, items : Seq(Items),
          count : Nat, done : Nat, mark : Seqs \cup {NotFound}, val : Int,
          before : Seq(Items)]

ItemsKnown(c) ==
    IF c.pc \in {"size", "commit"} \/ (c.pc = "unlock" /\ c.val > 0)
    THEN c.done + 1 ELSE c.done

CallCounts(c) ==
    /\ c.done <= c.count
    /\ c.pc # "reply" => c.done < c.count
    /\ c.pc = "item" => c.op = "pop"
    /\ c.op = "push" =>
          /\ Len(c.items) = c.count
          /\ c.pc = "reply" => (c.done = c.count <=> c.val # -1)
    /\ c.op = "pop" =>
          /\ Len(c.items) = ItemsKnown(c)
          /\ c.pc \in {"size", "commit"} => c.val = 1

(* ... and, from the lock to the unlock, the shared batch holds what this   *)
(* call alone has staged since, computed from the database as it is.        *)
InTransaction(c) == c.pc \in {"mark", "item", "size", "commit", "unlock"}

StagedPush(c, d, b) ==
    LET mark == d.item[c.name][c.end]
        item == c.items[c.done + 1]
    IN  /\ c.pc = "mark" => b = EmptyBatch
        /\ c.pc \in {"size", "commit"} => ~SeqOutOfRange(PushSeq(mark, c.end))
        /\ c.pc = "size" => b = PushItem(EmptyBatch, c.name, c.end, mark, item)
        /\ c.pc = "commit" =>
              /\ b = PushBatch(d, EmptyBatch, c.name, c.end, mark, item)
              /\ c.val = qsize(d, c.name) + 1

StagedPop(c, d, b) ==
    LET mark == d.item[c.name][c.end]
    IN  /\ c.pc \in {"mark", "item"} => b = EmptyBatch
        /\ c.pc \in {"item", "size", "commit"} => c.mark = mark /\ mark # NotFound
        /\ c.pc \in {"size", "commit"} => c.items[c.done + 1] = d.item[c.name][mark]
        /\ c.pc = "size" => b = qdel_one(EmptyBatch, c.name, mark)
        /\ c.pc = "commit" => b = PopBatch(d, EmptyBatch, c.name, c.end, mark)

CallInv(w, c, m, d, b) ==
    /\ CallCounts(c)
    /\ InTransaction(c) => m = w
    /\ c.op = "push" => StagedPush(c, d, b)
    /\ c.op = "pop" => StagedPop(c, d, b)

ServiceInv ==
    /\ db \in Databases
    /\ WellFormed(db)
    /\ mutex \in Writers \cup {Nobody}
    /\ writer \in [Writers -> Calls \cup {Idle}]
    /\ \A w \in Writers : writer[w] # Idle => CallInv(w, writer[w], mutex, db, batch)

LEMMA IdleIsNoCall == Idle \notin Calls /\ Idle.pc = "idle"
  BY DEF Idle, Calls

(* Outside a transaction a call depends on nothing shared.                  *)
LEMMA OutsideTransaction ==
  ASSUME NEW c \in Calls, ~InTransaction(c), CallCounts(c), NEW w, NEW m, NEW d, NEW b
  PROVE  CallInv(w, c, m, d, b)
  BY DEF CallInv, StagedPush, StagedPop, InTransaction

(* A step of one writer thread: the others are outside the transactions, or *)
(* it changes nothing they share.                                           *)
LEMMA OneWriterMoves ==
  ASSUME ServiceInv, NEW w \in Writers, NEW c2 \in Calls \cup {Idle},
         writer' = [writer EXCEPT ![w] = c2],
         c2 # Idle => CallInv(w, c2, mutex', db', batch'),
         db' \in Databases, WellFormed(db'), mutex' \in Writers \cup {Nobody},
         \/ UNCHANGED <<db, batch, mutex>>
         \/ mutex = Nobody
         \/ writer[w] # Idle /\ InTransaction(writer[w])
  PROVE  ServiceInv'
  <1>1. ASSUME NEW v \in Writers \ {w}, writer[v] # Idle
        PROVE  CallInv(v, writer[v], mutex', db', batch')
    <2>1. writer[v] \in Calls /\ CallInv(v, writer[v], mutex, db, batch)
      BY <1>1 DEF ServiceInv
    <2>2. CASE UNCHANGED <<db, batch, mutex>>
      BY <2>1, <2>2
    <2>3. CASE mutex = Nobody \/ (writer[w] # Idle /\ InTransaction(writer[w]))
      <3>1. mutex # v
        BY <1>1, <2>3, NobodyAssumption DEF ServiceInv, CallInv
      <3>2. ~InTransaction(writer[v]) /\ CallCounts(writer[v])
        BY <2>1, <3>1 DEF CallInv
      <3> QED
        BY <2>1, <3>2, OutsideTransaction
    <2> QED
      BY <2>2, <2>3
  <1>2. \A v \in Writers : writer'[v] # Idle => CallInv(v, writer'[v], mutex', db', batch')
    <2> SUFFICES ASSUME NEW v \in Writers, writer'[v] # Idle
                 PROVE  CallInv(v, writer'[v], mutex', db', batch')
      OBVIOUS
    <2>1. writer'[v] = IF v = w THEN c2 ELSE writer[v]
      BY DEF ServiceInv
    <2>2. CASE v = w
      BY <2>1, <2>2
    <2>3. CASE v # w
      BY <1>1, <2>1, <2>3
    <2> QED
      BY <2>2, <2>3
  <1>3. writer' \in [Writers -> Calls \cup {Idle}]
    BY DEF ServiceInv
  <1> QED
    BY <1>2, <1>3 DEF ServiceInv

LEMMA ServiceInitInv == Init => ServiceInv
  <1> SUFFICES ASSUME Init PROVE ServiceInv
    OBVIOUS
  <1>1. EmptyDb \in Databases
    BY DEF EmptyDb, Databases, ItemValues, SizeValues
  <1>2. WellFormed(EmptyDb)
    BY DEF WellFormed, EmptyQueue, EmptyDb
  <1> QED
    BY <1>1, <1>2 DEF Init, ServiceInv

(* The facts a step of a writer thread starts from.                         *)
LEMMA CallFacts ==
  ASSUME ServiceInv, NEW w \in Writers, writer[w].pc # "idle"
  PROVE  /\ writer[w] \in Calls /\ writer[w] # Idle
         /\ CallCounts(writer[w])
         /\ InTransaction(writer[w]) => mutex = w
         /\ writer[w].op = "push" => StagedPush(writer[w], db, batch)
         /\ writer[w].op = "pop" => StagedPop(writer[w], db, batch)
  <1>1. writer[w] \in Calls \cup {Idle}
    BY DEF ServiceInv
  <1>2. writer[w] # Idle
    BY IdleIsNoCall
  <1> QED
    BY <1>1, <1>2 DEF ServiceInv, CallInv

LEMMA QpushCallInv ==
  ASSUME ServiceInv, NEW w \in Writers, QpushCall(w)
  PROVE  ServiceInv'
  <1>1. PICK n \in Names, e \in Ends, k \in 1..MaxItems :
           \E items \in [1..k -> Items] : StartCall(w, Call("push", n, e, items, k))
    BY DEF QpushCall
  <1>2. PICK items \in [1..k -> Items] : StartCall(w, Call("push", n, e, items, k))
    BY <1>1
  <1> DEFINE c == Call("push", n, e, items, k)
  <1>3. k \in Nat \ {0} /\ items \in Seq(Items) /\ Len(items) = k
    BY MaxItemsAssumption
  <1>4. Contents(db, n) \in Seq(Items)
    BY ContentsOf DEF ServiceInv
  <1>5. c \in Calls
    BY <1>3, <1>4 DEF Call, Calls
  <1>6. CallCounts(c) /\ ~InTransaction(c)
    BY <1>3 DEF Call, CallCounts, InTransaction
  <1>7. /\ writer' = [writer EXCEPT ![w] = c]
        /\ UNCHANGED <<db, batch, mutex>>
    BY <1>2 DEF StartCall
  <1> HIDE DEF c
  <1> QED
    BY <1>5, <1>6, <1>7, OutsideTransaction, OneWriterMoves DEF ServiceInv

LEMMA QpopCallInv ==
  ASSUME ServiceInv, NEW w \in Writers, QpopCall(w)
  PROVE  ServiceInv'
  <1>1. PICK n \in Names, e \in Ends, k \in 1..MaxItems :
           StartCall(w, Call("pop", n, e, <<>>, k))
    BY DEF QpopCall
  <1> DEFINE c == Call("pop", n, e, <<>>, k)
  <1>3. k \in Nat \ {0} /\ <<>> \in Seq(Items) /\ Len(<<>>) = 0
    BY MaxItemsAssumption
  <1>4. Contents(db, n) \in Seq(Items)
    BY ContentsOf DEF ServiceInv
  <1>5. c \in Calls
    BY <1>3, <1>4 DEF Call, Calls
  <1>6. CallCounts(c) /\ ~InTransaction(c)
    BY <1>3 DEF Call, CallCounts, InTransaction, ItemsKnown
  <1>7. /\ writer' = [writer EXCEPT ![w] = c]
        /\ UNCHANGED <<db, batch, mutex>>
    BY <1>1 DEF StartCall
  <1> HIDE DEF c
  <1> QED
    BY <1>5, <1>6, <1>7, OutsideTransaction, OneWriterMoves DEF ServiceInv

LEMMA BeginInv ==
  ASSUME ServiceInv, NEW w \in Writers, Begin(w)
  PROVE  ServiceInv'
  <1> DEFINE c == writer[w]
             c2 == [c EXCEPT !.pc = "mark"]
  <1>1. c \in Calls /\ CallCounts(c) /\ c.pc = "begin"
    BY CallFacts DEF Begin
  <1>2. /\ mutex = Nobody /\ mutex' = w /\ batch' = EmptyBatch /\ db' = db
        /\ writer' = [writer EXCEPT ![w] = c2]
    BY DEF Begin, Lock, Goto
  <1> HIDE DEF c
  <1>3. c2 \in Calls /\ CallCounts(c2)
    BY <1>1 DEF Calls, CallCounts, ItemsKnown
  <1>4. c2.pc = "mark"
    BY <1>1 DEF Calls
  <1> HIDE DEF c2
  <1>5. CallInv(w, c2, mutex', db', batch')
    BY <1>2, <1>3, <1>4 DEF CallInv, StagedPush, StagedPop
  <1> QED
    BY <1>2, <1>3, <1>5, OneWriterMoves DEF ServiceInv

LEMMA PushMarkInv ==
  ASSUME ServiceInv, NEW w \in Writers, PushMark(w)
  PROVE  ServiceInv'
  <1> DEFINE c == writer[w]
             c2 == [c EXCEPT !.pc = "size"]
             mark == db.item[c.name][c.end]
  <1>1. c.pc = "mark" /\ c.op = "push"
    BY DEF PushMark
  <1>2. /\ c \in Calls /\ c # Idle /\ CallCounts(c) /\ mutex = w
        /\ StagedPush(c, db, batch)
    BY <1>1, CallFacts DEF InTransaction
  <1>3. /\ ~SeqOutOfRange(PushSeq(mark, c.end))
        /\ batch' = PushItem(EmptyBatch, c.name, c.end, mark, c.items[c.done + 1])
        /\ writer' = [writer EXCEPT ![w] = c2]
        /\ UNCHANGED <<db, mutex>>
    BY <1>1, <1>2 DEF PushMark, Goto, PushedItem, StagedPush
  <1> HIDE DEF c
  <1>4. c2 \in Calls /\ CallCounts(c2)
    BY <1>1, <1>2 DEF Calls, CallCounts
  <1>5. /\ c2.pc = "size" /\ c2.op = "push" /\ c2.name = c.name /\ c2.end = c.end
        /\ c2.items = c.items /\ c2.done = c.done
    BY <1>1, <1>2 DEF Calls
  <1> HIDE DEF c2
  <1>6. CallInv(w, c2, mutex', db', batch')
    BY <1>2, <1>3, <1>4, <1>5 DEF CallInv, StagedPush
  <1>7. InTransaction(c)
    BY <1>1 DEF InTransaction
  <1> QED
    BY <1>2, <1>3, <1>4, <1>6, <1>7, OneWriterMoves DEF ServiceInv, c

(* A transaction that returns: what it has staged no longer matters.        *)
LEMMA ReturnInv ==
  ASSUME ServiceInv, NEW w \in Writers, NEW c2 \in Calls,
         writer' = [writer EXCEPT ![w] = c2], c2.pc = "unlock", CallCounts(c2),
         writer[w] # Idle, InTransaction(writer[w]),
         db' \in Databases, WellFormed(db'), mutex' = mutex
  PROVE  ServiceInv'
  <1>1. mutex = w
    BY DEF ServiceInv, CallInv
  <1>2. CallInv(w, c2, mutex', db', batch')
    BY <1>1 DEF CallInv, StagedPush, StagedPop
  <1> QED
    BY <1>2, OneWriterMoves DEF ServiceInv

(* A call that moves to pc with the value v, field by field.                *)
WithVal(c, v, pc) == [[c EXCEPT !.val = v] EXCEPT !.pc = pc]

LEMMA SetVal ==
  ASSUME NEW c \in Calls, NEW v \in Int,
         NEW pc \in {"begin", "mark", "item", "size", "commit", "unlock", "reply"}
  PROVE  /\ WithVal(c, v, pc) \in Calls
         /\ WithVal(c, v, pc).pc = pc
         /\ WithVal(c, v, pc).op = c.op
         /\ WithVal(c, v, pc).name = c.name
         /\ WithVal(c, v, pc).end = c.end
         /\ WithVal(c, v, pc).items = c.items
         /\ WithVal(c, v, pc).count = c.count
         /\ WithVal(c, v, pc).done = c.done
         /\ WithVal(c, v, pc).mark = c.mark
         /\ WithVal(c, v, pc).val = v
         /\ WithVal(c, v, pc).before = c.before
  <1> DEFINE c1 == [c EXCEPT !.val = v]
             c2 == WithVal(c, v, pc)
  <1>1. /\ c1 \in Calls
        /\ c1.op = c.op /\ c1.name = c.name /\ c1.end = c.end
        /\ c1.items = c.items /\ c1.count = c.count /\ c1.done = c.done
        /\ c1.mark = c.mark /\ c1.val = v /\ c1.before = c.before
    BY DEF Calls
  <1> HIDE DEF c1
  <1>2. c2 = [c1 EXCEPT !.pc = pc]
    BY DEF c1, WithVal
  <1> HIDE DEF c2
  <1>3. /\ c2 \in Calls
        /\ c2.pc = pc /\ c2.op = c.op /\ c2.name = c.name /\ c2.end = c.end
        /\ c2.items = c.items /\ c2.count = c.count /\ c2.done = c.done
        /\ c2.mark = c.mark /\ c2.val = v /\ c2.before = c.before
    BY <1>1, <1>2 DEF Calls
  <1> QED
    BY <1>3 DEF c2

LEMMA PushFullInv ==
  ASSUME ServiceInv, NEW w \in Writers, PushFull(w)
  PROVE  ServiceInv'
  <1> DEFINE c == writer[w]
             c2 == WithVal(c, -1, "unlock")
  <1>1. c.pc = "mark" /\ c.op = "push"
    BY DEF PushFull
  <1>2. c \in Calls /\ c # Idle /\ CallCounts(c)
    BY <1>1, CallFacts
  <1>3. writer' = [writer EXCEPT ![w] = c2] /\ UNCHANGED <<db, mutex>>
    BY DEF PushFull, Return, Goto, WithVal
  <1>4. InTransaction(c)
    BY <1>1 DEF InTransaction
  <1> HIDE DEF c
  <1>5. /\ c2 \in Calls /\ c2.pc = "unlock" /\ c2.op = c.op /\ c2.done = c.done
        /\ c2.count = c.count /\ c2.items = c.items
    BY <1>2, SetVal
  <1> HIDE DEF c2
  <1>6. CallCounts(c2)
    BY <1>1, <1>2, <1>5 DEF CallCounts
  <1> QED
    BY <1>2, <1>3, <1>4, <1>5, <1>6, ReturnInv DEF ServiceInv, c

LEMMA PushSizeInv ==
  ASSUME ServiceInv, NEW w \in Writers, PushSize(w)
  PROVE  ServiceInv'
  <1> DEFINE c == writer[w]
             size == qsize(db, c.name) + 1
             c2 == WithVal(c, size, "commit")
             mark == db.item[c.name][c.end]
             item == c.items[c.done + 1]
  <1>1. c.pc = "size" /\ c.op = "push"
    BY DEF PushSize
  <1>2. /\ c \in Calls /\ c # Idle /\ CallCounts(c) /\ mutex = w
        /\ StagedPush(c, db, batch)
    BY <1>1, CallFacts DEF InTransaction
  <1>3. /\ ~SeqOutOfRange(PushSeq(mark, c.end))
        /\ batch = PushItem(EmptyBatch, c.name, c.end, mark, item)
    BY <1>1, <1>2 DEF StagedPush
  <1>4. /\ batch' = incr_qsize(db, batch, c.name, 1)
        /\ writer' = [writer EXCEPT ![w] = c2]
        /\ UNCHANGED <<db, mutex>>
    BY DEF PushSize, Goto, WithVal
  <1>5. batch' = PushBatch(db, EmptyBatch, c.name, c.end, mark, item)
    BY <1>3, <1>4 DEF PushBatch
  <1>6. size \in Nat
    BY <1>2, QsizeType DEF ServiceInv, Calls
  <1>7. InTransaction(c)
    BY <1>1 DEF InTransaction
  <1> HIDE DEF c
  <1>9. /\ c2 \in Calls
        /\ c2.pc = "commit" /\ c2.op = c.op /\ c2.name = c.name /\ c2.end = c.end
        /\ c2.items = c.items /\ c2.done = c.done /\ c2.val = size /\ c2.count = c.count
    <2>1. c \in Calls /\ size \in Int
      BY <1>2, <1>6
    <2> HIDE DEF size
    <2> QED
      BY <2>1, SetVal
  <1> HIDE DEF c2
  <1>8. c2 \in Calls /\ CallCounts(c2)
    BY <1>1, <1>2, <1>9 DEF CallCounts
  <1>10. CallInv(w, c2, mutex', db', batch')
    BY <1>1, <1>2, <1>3, <1>4, <1>5, <1>8, <1>9 DEF CallInv, StagedPush
  <1> QED
    BY <1>2, <1>4, <1>7, <1>8, <1>10, OneWriterMoves DEF ServiceInv, c

LEMMA PopMarkInv ==
  ASSUME ServiceInv, NEW w \in Writers, PopMark(w)
  PROVE  ServiceInv'
  <1> DEFINE c == writer[w]
             mark == db.item[c.name][c.end]
  <1>1. c.pc = "mark" /\ c.op = "pop"
    BY DEF PopMark
  <1>2. /\ c \in Calls /\ c # Idle /\ CallCounts(c) /\ mutex = w
        /\ StagedPop(c, db, batch) /\ InTransaction(c)
    BY <1>1, CallFacts DEF InTransaction
  <1>3. CASE mark = NotFound
    <2> DEFINE c2 == WithVal(c, 0, "unlock")
    <2>1. writer' = [writer EXCEPT ![w] = c2] /\ UNCHANGED <<db, mutex>>
      BY <1>3 DEF PopMark, Return, Goto, WithVal
    <2> HIDE DEF c
    <2>3. /\ c2 \in Calls /\ c2.pc = "unlock" /\ c2.op = c.op /\ c2.done = c.done
          /\ c2.count = c.count /\ c2.items = c.items /\ c2.val = 0
      BY <1>2, SetVal
    <2> HIDE DEF c2
    <2>2. c2 \in Calls /\ CallCounts(c2) /\ c2.pc = "unlock"
      BY <1>1, <1>2, <2>3 DEF CallCounts, ItemsKnown
    <2> QED
      BY <1>2, <2>1, <2>2, ReturnInv DEF ServiceInv, c
  <1>4. CASE mark # NotFound
    <2> DEFINE c2 == [[c EXCEPT !.mark = mark] EXCEPT !.pc = "item"]
    <2>1. writer' = [writer EXCEPT ![w] = c2] /\ UNCHANGED <<db, batch, mutex>>
      BY <1>4 DEF PopMark, Goto
    <2>2. mark \in Seqs
      <3>1. c.name \in Names /\ c.end \in Ends
        BY <1>2 DEF Calls
      <3> HIDE DEF c
      <3>2. db \in Databases /\ WellFormed(db)
        BY DEF ServiceInv
      <3> QED
        BY <1>4, <3>1, <3>2, MarkOf, SeqAssumption DEF Seqs
    <2> HIDE DEF c
    <2>3. c2 \in Calls /\ CallCounts(c2)
      <3> HIDE DEF mark
      <3> QED
        BY <1>1, <1>2, <2>2 DEF Calls, CallCounts, ItemsKnown
    <2>4. /\ c2.pc = "item" /\ c2.op = "pop" /\ c2.name = c.name /\ c2.end = c.end
          /\ c2.mark = mark
      <3> HIDE DEF mark
      <3> QED
        BY <1>1, <1>2 DEF Calls
    <2> HIDE DEF c2
    <2>5. batch' = EmptyBatch
      BY <1>1, <1>2, <2>1 DEF StagedPop
    <2>6. CallInv(w, c2, mutex', db', batch')
      BY <1>2, <1>4, <2>1, <2>3, <2>4, <2>5 DEF CallInv, StagedPop
    <2> QED
      BY <1>2, <2>1, <2>3, <2>6, OneWriterMoves DEF ServiceInv, c
  <1> QED
    BY <1>3, <1>4

LEMMA PopItemInv ==
  ASSUME ServiceInv, NEW w \in Writers, PopItem(w)
  PROVE  ServiceInv'
  <1> DEFINE c == writer[w]
             item == db.item[c.name][c.mark]
  <1>1. c.pc = "item"
    BY DEF PopItem
  <1>2. /\ c \in Calls /\ c # Idle /\ CallCounts(c) /\ mutex = w
        /\ c.op = "pop" /\ StagedPop(c, db, batch) /\ InTransaction(c)
    BY <1>1, CallFacts DEF InTransaction, CallCounts
  <1>3. CASE item = NotFound
    <2> DEFINE c2 == WithVal(c, 0, "unlock")
    <2>1. writer' = [writer EXCEPT ![w] = c2] /\ UNCHANGED <<db, mutex>>
      BY <1>3 DEF PopItem, Return, Goto, WithVal
    <2> HIDE DEF c
    <2>2. /\ c2 \in Calls /\ c2.pc = "unlock" /\ c2.op = c.op /\ c2.done = c.done
          /\ c2.count = c.count /\ c2.items = c.items /\ c2.val = 0
      <3>1. c \in Calls
        BY <1>2
      <3> QED
        BY <3>1, SetVal
    <2> HIDE DEF c2
    <2>3. CallCounts(c2)
      BY <1>1, <1>2, <2>2 DEF CallCounts, ItemsKnown
    <2> QED
      BY <1>2, <2>1, <2>2, <2>3, ReturnInv DEF ServiceInv, c
  <1>4. CASE item # NotFound
    <2> DEFINE more == Append(c.items, item)
               c1 == [c EXCEPT !.items = more, !.val = 1]
               c2 == [c1 EXCEPT !.pc = "size"]
    <2>1. /\ writer' = [writer EXCEPT ![w] = c2] /\ UNCHANGED <<db, mutex>>
          /\ batch' = qdel_one(batch, c.name, c.mark)
      BY <1>4 DEF PopItem, Goto
    <2>2. c.name \in Names /\ c.end \in Ends /\ c.items \in Seq(Items) /\ c.done \in Nat
      BY <1>2 DEF Calls
    <2>3. /\ batch = EmptyBatch /\ c.mark = db.item[c.name][c.end] /\ c.mark # NotFound
          /\ Len(c.items) = c.done
      BY <1>1, <1>2 DEF StagedPop, CallCounts, ItemsKnown
    <2> HIDE DEF c
    <2>4. item \in Items
      <3>1. /\ db \in Databases /\ WellFormed(db)
        BY DEF ServiceInv
      <3>2. /\ c.mark \in QITEM_MIN_SEQ+1 .. QITEM_MAX_SEQ-1
            /\ ContiguousQueue(db, c.name)
        BY <2>2, <2>3, <3>1, MarkOf
      <3>3. c.mark \in Seqs \ Ends
        BY <3>2, SeqAssumption DEF Seqs, Ends, QFRONT_SEQ, QBACK_SEQ
      <3>4. \A s \in Seqs \ Ends : db.item[c.name][s] \in Items \cup {NotFound}
        BY <3>2 DEF ContiguousQueue
      <3> QED
        BY <1>4, <3>3, <3>4
    <2>5. /\ more \in Seq(Items)
          /\ Len(more) = c.done + 1
          /\ more[c.done + 1] = item
      BY <2>2, <2>3, <2>4, AppendProperties
    <2>6. /\ c1 \in Calls /\ c1.op = c.op /\ c1.name = c.name /\ c1.end = c.end
          /\ c1.items = more /\ c1.count = c.count /\ c1.done = c.done
          /\ c1.mark = c.mark /\ c1.val = 1
      <3> HIDE DEF more
      <3>1. c \in Calls /\ more \in Seq(Items)
        BY <1>2, <2>5
      <3>2. c1 \in Calls
        <4> DEFINE c0 == [c EXCEPT !.items = more]
        <4>1. c0 \in Calls
          BY <3>1 DEF Calls
        <4>2. c1 = [c0 EXCEPT !.val = 1]
          BY <3>1 DEF Calls
        <4> HIDE DEF c0, c1
        <4> QED
          BY <4>1, <4>2 DEF Calls
      <3>3. /\ c1.op = c.op /\ c1.name = c.name /\ c1.end = c.end
            /\ c1.count = c.count /\ c1.done = c.done /\ c1.mark = c.mark
        BY <3>1 DEF Calls
      <3>4. c1.items = more /\ c1.val = 1
        BY <3>1 DEF Calls
      <3> QED
        BY <3>2, <3>3, <3>4
    <2> HIDE DEF c1
    <2>7. /\ c2 \in Calls /\ c2.pc = "size" /\ c2.op = "pop" /\ c2.name = c.name
          /\ c2.end = c.end /\ c2.items = more
          /\ c2.count = c.count /\ c2.done = c.done /\ c2.mark = c.mark /\ c2.val = 1
      <3> HIDE DEF more
      <3> QED
        BY <1>2, <2>6 DEF Calls
    <2> HIDE DEF c2
    <2>8. CallCounts(c2)
      <3> HIDE DEF more
      <3> QED
        BY <1>1, <1>2, <2>5, <2>7 DEF CallCounts, ItemsKnown
    <2>9. StagedPop(c2, db', batch')
      <3> HIDE DEF more
      <3>1. c2.items[c2.done + 1] = db.item[c.name][c.mark]
        BY <2>5, <2>7
      <3> QED
        BY <2>1, <2>3, <2>7, <3>1 DEF StagedPop
    <2>10. CallInv(w, c2, mutex', db', batch')
      BY <1>2, <2>1, <2>7, <2>8, <2>9 DEF CallInv
    <2> QED
      BY <1>2, <2>1, <2>7, <2>10, OneWriterMoves DEF ServiceInv, c
  <1> QED
    BY <1>3, <1>4

LEMMA PopSizeInv ==
  ASSUME ServiceInv, NEW w \in Writers, PopSize(w)
  PROVE  ServiceInv'
  <1> DEFINE c == writer[w]
             c2 == [c EXCEPT !.pc = "commit"]
             mark == db.item[c.name][c.end]
  <1>1. c.pc = "size" /\ c.op = "pop"
    BY DEF PopSize
  <1>2. /\ c \in Calls /\ c # Idle /\ CallCounts(c) /\ mutex = w
        /\ StagedPop(c, db, batch) /\ InTransaction(c)
    BY <1>1, CallFacts DEF InTransaction
  <1>3. /\ c.mark = mark /\ mark # NotFound
        /\ c.items[c.done + 1] = db.item[c.name][mark]
        /\ batch = qdel_one(EmptyBatch, c.name, mark)
    BY <1>1, <1>2 DEF StagedPop
  <1>4. /\ batch' = PopBatch(db, EmptyBatch, c.name, c.end, mark)
        /\ writer' = [writer EXCEPT ![w] = c2]
        /\ UNCHANGED <<db, mutex>>
    BY <1>3 DEF PopSize, PopBatch, Goto
  <1> HIDE DEF c
  <1>5. /\ c2 \in Calls /\ c2.pc = "commit" /\ c2.op = "pop" /\ c2.name = c.name
        /\ c2.end = c.end /\ c2.items = c.items /\ c2.count = c.count
        /\ c2.done = c.done /\ c2.mark = c.mark /\ c2.val = c.val
    BY <1>1, <1>2 DEF Calls
  <1> HIDE DEF c2
  <1>6. CallCounts(c2)
    BY <1>1, <1>2, <1>5 DEF CallCounts, ItemsKnown
  <1>7. CallInv(w, c2, mutex', db', batch')
    BY <1>2, <1>3, <1>4, <1>5, <1>6 DEF CallInv, StagedPop
  <1> QED
    BY <1>2, <1>4, <1>5, <1>7, OneWriterMoves DEF ServiceInv, c

(* What a commit finds: the batch of one push or pop, complete.             *)
LEMMA CommitFinds ==
  ASSUME ServiceInv, NEW w \in Writers, writer[w].pc = "commit"
  PROVE  LET c == writer[w]
             mark == db.item[c.name][c.end]
         IN  /\ c \in Calls /\ c # Idle /\ CallCounts(c) /\ InTransaction(c)
             /\ c.name \in Names /\ c.end \in Ends /\ c.items \in Seq(Items)
             /\ c.op = "push" =>
                   /\ PushedItem(c) \in Items
                   /\ ~SeqOutOfRange(PushSeq(mark, c.end))
                   /\ batch = PushBatch(db, EmptyBatch, c.name, c.end, mark, PushedItem(c))
                   /\ c.val = qsize(db, c.name) + 1
             /\ c.op = "pop" =>
                   /\ mark \in Int /\ qsize(db, c.name) # 0
                   /\ batch = PopBatch(db, EmptyBatch, c.name, c.end, mark)
                   /\ c.val = 1
                   /\ Len(c.items) = c.done + 1
                   /\ c.items[Len(c.items)] = db.item[c.name][mark]
  <1> DEFINE c == writer[w]
             mark == db.item[c.name][c.end]
  <1>1. /\ c \in Calls /\ c # Idle /\ CallCounts(c) /\ InTransaction(c)
        /\ c.op = "push" => StagedPush(c, db, batch)
        /\ c.op = "pop" => StagedPop(c, db, batch)
    BY CallFacts DEF InTransaction
  <1>2. c.pc = "commit"
    OBVIOUS
  <1>3. db \in Databases /\ WellFormed(db)
    BY DEF ServiceInv
  <1> HIDE DEF c
  <1>4. /\ c.name \in Names /\ c.end \in Ends /\ c.items \in Seq(Items)
        /\ c.done \in Nat /\ c.count \in Nat
    BY <1>1 DEF Calls
  <1>5. ASSUME c.op = "push"
        PROVE  /\ PushedItem(c) \in Items
               /\ ~SeqOutOfRange(PushSeq(mark, c.end))
               /\ batch = PushBatch(db, EmptyBatch, c.name, c.end, mark, PushedItem(c))
               /\ c.val = qsize(db, c.name) + 1
    <2>1. Len(c.items) = c.count /\ c.done < c.count
      BY <1>1, <1>2, <1>5 DEF CallCounts
    <2>2. c.done + 1 \in 1..Len(c.items)
      BY <1>4, <2>1
    <2>3. PushedItem(c) \in Items
      BY <1>4, <2>2, ElementOfSeq DEF PushedItem
    <2> QED
      BY <1>1, <1>2, <1>5, <2>3 DEF StagedPush, PushedItem
  <1>6. ASSUME c.op = "pop"
        PROVE  /\ mark \in Int /\ qsize(db, c.name) # 0
               /\ batch = PopBatch(db, EmptyBatch, c.name, c.end, mark)
               /\ c.val = 1
               /\ Len(c.items) = c.done + 1
               /\ c.items[Len(c.items)] = db.item[c.name][mark]
    <2>1. /\ Len(c.items) = c.done + 1 /\ c.val = 1
      BY <1>1, <1>2, <1>6 DEF CallCounts, ItemsKnown
    <2>2. /\ mark # NotFound
          /\ c.items[c.done + 1] = db.item[c.name][mark]
          /\ batch = PopBatch(db, EmptyBatch, c.name, c.end, mark)
      BY <1>1, <1>2, <1>6 DEF StagedPop
    <2>3. mark \in Int /\ ContiguousQueue(db, c.name)
      BY <1>3, <1>4, <2>2, MarkOf
    <2>4. qsize(db, c.name) # 0
      BY <1>3, <1>4, <2>3, ContentsOf
    <2> HIDE DEF mark
    <2> QED
      BY <2>1, <2>2, <2>3, <2>4
  <1> QED
    BY <1>1, <1>4, <1>5, <1>6 DEF c

LEMMA CommitInv ==
  ASSUME ServiceInv, NEW w \in Writers, Commit(w)
  PROVE  ServiceInv'
  <1> DEFINE c == writer[w]
             c2 == WithVal(c, c.val, "unlock")
             mark == db.item[c.name][c.end]
  <1>1. c.pc = "commit"
    BY DEF Commit
  <1>2. /\ db' = Applied(batch, db) /\ mutex' = mutex
        /\ writer' = [writer EXCEPT ![w] = c2]
    BY DEF Commit, Return, Goto, WithVal
  <1>3. /\ c \in Calls /\ c # Idle /\ CallCounts(c) /\ InTransaction(c)
        /\ c.op = "push" =>
              /\ PushedItem(c) \in Items
              /\ ~SeqOutOfRange(PushSeq(mark, c.end))
              /\ batch = PushBatch(db, EmptyBatch, c.name, c.end, mark, PushedItem(c))
              /\ c.val = qsize(db, c.name) + 1
        /\ c.op = "pop" =>
              /\ mark \in Int /\ qsize(db, c.name) # 0
              /\ batch = PopBatch(db, EmptyBatch, c.name, c.end, mark)
              /\ c.val = 1
    BY <1>1, CommitFinds
  <1>4. db \in Databases /\ WellFormed(db)
    BY DEF ServiceInv
  <1> HIDE DEF c
  <1>5. c.name \in Names /\ c.end \in Ends /\ c.op \in {"push", "pop"} /\ c.val \in Int
    BY <1>3 DEF Calls
  <1>6. batch \in Batches /\ WellFormed(Applied(batch, db))
    <2>1. CASE c.op = "push"
      BY <1>3, <1>4, <1>5, <2>1, PushPreserves
    <2>2. CASE c.op = "pop"
      BY <1>3, <1>4, <1>5, <2>2, PopPreserves
    <2> QED
      BY <1>5, <2>1, <2>2
  <1>7. db' \in Databases /\ WellFormed(db')
    BY <1>2, <1>4, <1>6, AppliedType
  <1>8. /\ c2 \in Calls /\ c2.pc = "unlock" /\ c2.op = c.op /\ c2.done = c.done
        /\ c2.count = c.count /\ c2.items = c.items /\ c2.val = c.val
    <2>1. c \in Calls
      BY <1>3
    <2>2. PICK v \in Int : v = c.val
      BY <1>5
    <2>3. /\ WithVal(c, v, "unlock") \in Calls
          /\ WithVal(c, v, "unlock").pc = "unlock"
          /\ WithVal(c, v, "unlock").op = c.op
          /\ WithVal(c, v, "unlock").done = c.done
          /\ WithVal(c, v, "unlock").count = c.count
          /\ WithVal(c, v, "unlock").items = c.items
          /\ WithVal(c, v, "unlock").val = v
      BY <2>1, SetVal
    <2> QED
      BY <2>2, <2>3
  <1> HIDE DEF c2
  <1>9. CallCounts(c2)
    BY <1>1, <1>3, <1>8 DEF CallCounts, ItemsKnown
  <1> QED
    BY <1>2, <1>3, <1>7, <1>8, <1>9, ReturnInv DEF c

(* The items a failing call keeps.                                          *)
LEMMA FailInv ==
  ASSUME ServiceInv, NEW w \in Writers, Fail(w)
  PROVE  ServiceInv'
  <1> DEFINE c == writer[w]
             kept == IF c.op = "push" THEN c.items ELSE SubSeq(c.items, 1, c.done)
             c0 == [c EXCEPT !.items = kept]
             c2 == WithVal(c0, -1, "unlock")
  <1>1. c.pc \in {"mark", "item", "size", "commit"}
    BY DEF Fail
  <1>2. c \in Calls /\ c # Idle /\ CallCounts(c) /\ InTransaction(c)
    BY <1>1, CallFacts DEF InTransaction
  <1>3. writer' = [writer EXCEPT ![w] = c2] /\ UNCHANGED <<db, mutex>>
    <2>1. [c EXCEPT !.pc = "unlock", !.val = -1,
                    !.items = IF c.op = "push" THEN @ ELSE SubSeq(@, 1, c.done)] = c2
      BY <1>2 DEF WithVal, Calls
    <2> HIDE DEF c2
    <2> QED
      BY <2>1 DEF Fail
  <1> HIDE DEF c
  <1>4. c.items \in Seq(Items) /\ c.done \in Nat /\ c.op \in {"push", "pop"}
    BY <1>2 DEF Calls
  <1>5. /\ kept \in Seq(Items)
        /\ c.op = "push" => kept = c.items
        /\ c.op = "pop" => Len(kept) = c.done
    <2>1. CASE c.op = "push"
      BY <1>4, <2>1
    <2>2. CASE c.op = "pop"
      <3>1. c.done <= Len(c.items)
        BY <1>2, <1>4, <2>2 DEF CallCounts, ItemsKnown
      <3>2. \A i \in 1..c.done : c.items[i] \in Items
        BY <1>4, <3>1, ElementOfSeq
      <3>3. /\ SubSeq(c.items, 1, c.done) \in Seq(Items)
            /\ Len(SubSeq(c.items, 1, c.done)) = IF 1 <= c.done THEN c.done - 1 + 1 ELSE 0
        BY <1>4, <3>2, SubSeqProperties
      <3> QED
        BY <1>4, <2>2, <3>3
    <2> QED
      BY <1>4, <2>1, <2>2
  <1> HIDE DEF kept
  <1>6. /\ c0 \in Calls /\ c0.items = kept /\ c0.op = c.op /\ c0.done = c.done
        /\ c0.count = c.count
    <2>1. c \in Calls /\ kept \in Seq(Items)
      BY <1>2, <1>5
    <2> QED
      BY <2>1 DEF Calls
  <1> HIDE DEF c0
  <1>7. /\ c2 \in Calls /\ c2.pc = "unlock" /\ c2.op = c0.op /\ c2.done = c0.done
        /\ c2.count = c0.count /\ c2.items = c0.items /\ c2.val = -1
    <2>1. c0 \in Calls
      BY <1>6
    <2> QED
      BY <2>1, SetVal
  <1> HIDE DEF c2
  <1>8. CallCounts(c2)
    BY <1>1, <1>2, <1>4, <1>5, <1>6, <1>7 DEF CallCounts, ItemsKnown
  <1> QED
    BY <1>2, <1>3, <1>7, <1>8, ReturnInv DEF ServiceInv, c

LEMMA UnlockInv ==
  ASSUME ServiceInv, NEW w \in Writers, Unlock(w)
  PROVE  ServiceInv'
  <1> DEFINE c == writer[w]
             done == IF Succeeded(c) THEN c.done + 1 ELSE c.done
             pc == IF Succeeded(c) /\ done < c.count THEN "begin" ELSE "reply"
             c0 == [c EXCEPT !.done = done]
             c2 == [c0 EXCEPT !.pc = pc]
  <1>1. c.pc = "unlock"
    BY DEF Unlock
  <1>2. c \in Calls /\ c # Idle /\ CallCounts(c) /\ InTransaction(c)
    BY <1>1, CallFacts DEF InTransaction
  <1>3. /\ writer' = [writer EXCEPT ![w] = c2] /\ UNCHANGED <<db, batch>>
        /\ mutex' = Nobody
    BY DEF Unlock, Goto, Release
  <1> HIDE DEF c
  <1>4. /\ c.done \in Nat /\ c.count \in Nat /\ c.op \in {"push", "pop"} /\ c.val \in Int
        /\ done \in Nat
    BY <1>2 DEF Calls
  <1> HIDE DEF done
  <1>5. /\ c0 \in Calls /\ c0.items = c.items /\ c0.op = c.op /\ c0.done = done
        /\ c0.count = c.count /\ c0.val = c.val
    <2>1. c \in Calls /\ done \in Nat
      BY <1>2, <1>4
    <2> QED
      BY <2>1 DEF Calls
  <1> HIDE DEF c0
  <1>6. pc \in {"begin", "reply"}
    OBVIOUS
  <1> HIDE DEF pc
  <1>7. /\ c2 \in Calls /\ c2.pc = pc /\ c2.items = c.items /\ c2.op = c.op
        /\ c2.done = done /\ c2.count = c.count /\ c2.val = c.val
    BY <1>5, <1>6 DEF Calls
  <1> HIDE DEF c2
  <1>8. CallCounts(c2)
    <2>1. c.done < c.count
      BY <1>1, <1>2 DEF CallCounts
    <2>2. CASE c.op = "push"
      BY <1>1, <1>2, <1>4, <1>7, <2>1, <2>2 DEF CallCounts, Succeeded, done, pc
    <2>3. CASE c.op = "pop"
      BY <1>1, <1>2, <1>4, <1>7, <2>1, <2>3 DEF CallCounts, ItemsKnown, Succeeded, done, pc
    <2> QED
      BY <1>4, <2>2, <2>3
  <1>9. ~InTransaction(c2)
    BY <1>6, <1>7 DEF InTransaction
  <1>10. CallInv(w, c2, mutex', db', batch')
    BY <1>7, <1>8, <1>9, OutsideTransaction
  <1> QED
    BY <1>2, <1>3, <1>7, <1>10, OneWriterMoves DEF ServiceInv, c

LEMMA ReplyInv ==
  ASSUME ServiceInv, NEW w \in Writers, Reply(w)
  PROVE  ServiceInv'
  BY OneWriterMoves DEF Reply, ServiceInv

LEMMA ReaderStepInv ==
  ASSUME ServiceInv, NEW r \in Readers, ReaderStep(r)
  PROVE  ServiceInv'
  <1>1. UNCHANGED <<db, batch, mutex, writer>>
    BY DEF ReaderStep, PeekMark, PeekItem, PeekError, PeekDone, PeekReply
  <1> QED
    BY <1>1 DEF ServiceInv

LEMMA ServiceNextInv == ServiceInv /\ [Next]_vars => ServiceInv'
  <1> SUFFICES ASSUME ServiceInv, [Next]_vars PROVE ServiceInv'
    OBVIOUS
  <1>1. ASSUME NEW w \in Writers, WriterStep(w) PROVE ServiceInv'
    BY <1>1, QpushCallInv, QpopCallInv, BeginInv, PushMarkInv, PushFullInv, PushSizeInv,
       PopMarkInv, PopItemInv, PopSizeInv, CommitInv, FailInv, UnlockInv, ReplyInv
    DEF WriterStep, Transact
  <1>2. CASE UNCHANGED vars
    BY <1>2 DEF vars, ServiceInv
  <1> QED
    BY <1>1, <1>2, ReaderStepInv DEF Next

LEMMA ServiceInvariant == Spec => []ServiceInv
  BY ServiceInitInv, ServiceNextInv, PTL DEF Spec

-----------------------------------------------------------------------------
(* The refinement: a transaction takes effect in one step, its commit (or   *)
(* the read that finds the queue empty); every other step of a thread, and  *)
(* every step of a reader, leaves the deques and the last result alone.     *)

LEMMA ServiceInitImplements == Init => Atomic!Init
  <1> SUFFICES ASSUME Init PROVE Atomic!Init
    OBVIOUS
  <1>1. \A n \in Names : Contents(EmptyDb, n) = <<>>
    BY DEF Contents, qsize, EmptyDb
  <1> QED
    BY <1>1 DEF Init, Atomic!Init, NoResult, Atomic!NoResult

LEMMA CommitImplements ==
  ASSUME ServiceInv, NEW w \in Writers, Commit(w)
  PROVE  Atomic!Next
  <1> DEFINE c == writer[w]
             n == c.name
             e == c.end
             mark == db.item[n][e]
             q == Contents(db, n)
  <1>1. c.pc = "commit"
    BY DEF Commit
  <1>2. /\ db' = Applied(batch, db)
        /\ ret' = Result(c.op, n, e,
                         IF c.op = "push" THEN PushedItem(c) ELSE c.items[Len(c.items)], c.val)
    BY DEF Commit, Return
  <1>3. /\ c \in Calls /\ n \in Names /\ e \in Ends
        /\ c.op = "push" =>
              /\ PushedItem(c) \in Items
              /\ ~SeqOutOfRange(PushSeq(mark, e))
              /\ batch = PushBatch(db, EmptyBatch, n, e, mark, PushedItem(c))
              /\ c.val = qsize(db, n) + 1
        /\ c.op = "pop" =>
              /\ mark \in Int /\ qsize(db, n) # 0
              /\ batch = PopBatch(db, EmptyBatch, n, e, mark)
              /\ c.val = 1
              /\ c.items[Len(c.items)] = db.item[n][mark]
    BY <1>1, CommitFinds
  <1>4. db \in Databases /\ WellFormed(db)
    BY DEF ServiceInv
  <1> HIDE DEF c, n, e
  <1>5. c.op \in {"push", "pop"}
    BY <1>3 DEF Calls
  <1>6. CASE c.op = "push"
    <2> DEFINE item == PushedItem(c)
    <2>1. item \in Items
      BY <1>3, <1>6
    <2>2. batch \in Batches /\ OnlyQueue(batch, n)
      BY <1>3, <1>4, <1>6, PushEffect
    <2>3. Contents(Applied(batch, db), n) = Atomic!Pushed(q, e, item)
      BY <1>3, <1>4, <1>6, PushContents DEF Atomic!Pushed
    <2>4. [m \in Names |-> Contents(db', m)]
             = [[m \in Names |-> Contents(db, m)] EXCEPT ![n] = Atomic!Pushed(q, e, item)]
      BY <1>2, <1>3, <1>4, <2>2, <2>3, CommitContents
    <2>5. ret' = Result("push", n, e, item, Len(q) + 1)
      <3>1. Len(q) = qsize(db, n)
        BY <1>3, <1>4, ContentsOf
      <3> QED
        BY <1>2, <1>3, <1>6, <3>1
    <2>6. Atomic!Push(n, e, item)
      <3> HIDE DEF item
      <3> QED
        BY <1>3, <2>4, <2>5 DEF Atomic!Push, Result, Atomic!Result
    <2> QED
      BY <1>3, <2>1, <2>6 DEF Atomic!Next, Ends
  <1>7. CASE c.op = "pop"
    <2>1. batch \in Batches /\ OnlyQueue(batch, n)
      BY <1>3, <1>4, <1>7, PopEffect
    <2>2. /\ q # <<>>
          /\ db.item[n][mark] = Atomic!Peeked(q, e)
          /\ Contents(Applied(batch, db), n) = Atomic!Popped(q, e)
      BY <1>3, <1>4, <1>7, PopContents DEF Atomic!Popped, Atomic!Peeked
    <2>3. [m \in Names |-> Contents(db', m)]
             = [[m \in Names |-> Contents(db, m)] EXCEPT ![n] = Atomic!Popped(q, e)]
      BY <1>2, <1>3, <1>4, <2>1, <2>2, CommitContents
    <2>4. ret' = Result("pop", n, e, Atomic!Peeked(q, e), 1)
      BY <1>2, <1>3, <1>7, <2>2
    <2>5. Atomic!Pop(n, e)
      BY <1>3, <2>2, <2>3, <2>4 DEF Atomic!Pop, Result, Atomic!Result
    <2> QED
      BY <1>3, <2>5 DEF Atomic!Next, Ends
  <1> QED
    BY <1>5, <1>6, <1>7

(* An operation that returns -1 changes nothing.                            *)
LEMMA RefusalImplements ==
  ASSUME ServiceInv, NEW w \in Writers, PushFull(w) \/ Fail(w)
  PROVE  Atomic!Next
  <1> DEFINE c == writer[w]
  <1>1. /\ c.pc \in {"mark", "item", "size", "commit"}
        /\ PushFull(w) => c.op = "push"
    BY DEF PushFull, Fail
  <1>2. c \in Calls /\ CallCounts(c)
    BY <1>1, CallFacts
  <1>3. /\ UNCHANGED db
        /\ ret' = Result(c.op, c.name, c.end, 
                         IF c.op = "push" THEN PushedItem(c) ELSE NotFound, -1)
    BY <1>1 DEF PushFull, Fail, Return
  <1> HIDE DEF c
  <1>4. /\ c.name \in Names /\ c.end \in Ends /\ c.op \in {"push", "pop"}
        /\ c.items \in Seq(Items) /\ c.done \in Nat /\ c.count \in Nat
    BY <1>2 DEF Calls
  <1>5. CASE c.op = "push"
    <2>1. c.done + 1 \in 1..Len(c.items)
      BY <1>1, <1>2, <1>4, <1>5 DEF CallCounts
    <2>2. PushedItem(c) \in Items
      BY <1>4, <2>1, ElementOfSeq DEF PushedItem
    <2>3. Atomic!Refuse("push", c.name, c.end, PushedItem(c))
      BY <1>3, <1>5 DEF Atomic!Refuse, Result, Atomic!Result
    <2> QED
      BY <1>4, <2>2, <2>3 DEF Atomic!Next, Ends
  <1>6. CASE c.op = "pop"
    <2>1. Atomic!Refuse("pop", c.name, c.end, NotFound)
      BY <1>3, <1>6 DEF Atomic!Refuse, Result, Atomic!Result
    <2> QED
      BY <1>4, <2>1 DEF Atomic!Next, Ends
  <1> QED
    BY <1>4, <1>5, <1>6

(* A qpop finds no position key exactly when the queue is empty, and, with  *)
(* the mutex held, never finds the position key without the item.           *)
LEMMA PopReadsImplement ==
  ASSUME ServiceInv, NEW w \in Writers, PopMark(w) \/ PopItem(w)
  PROVE  [Atomic!Next]_(Atomic!vars)
  <1> DEFINE c == writer[w]
             mark == db.item[c.name][c.end]
  <1>1. c.pc \in {"mark", "item"} /\ (c.pc = "mark" => c.op = "pop") /\ UNCHANGED db
    BY DEF PopMark, PopItem
  <1>2. /\ c \in Calls
        /\ CallCounts(c)
        /\ c.op = "pop" => StagedPop(c, db, batch)
    BY <1>1, CallFacts
  <1>3. c.op = "pop" /\ CallCounts(c) /\ StagedPop(c, db, batch)
    BY <1>1, <1>2 DEF CallCounts
  <1>4. db \in Databases /\ WellFormed(db) /\ c.name \in Names /\ c.end \in Ends
    <2> HIDE DEF c
    <2> QED
      BY <1>2 DEF ServiceInv, Calls
  <1>5. CASE UNCHANGED ret
    BY <1>1, <1>5 DEF Atomic!vars
  <1>6. CASE mark = NotFound
    <2>1. Contents(db, c.name) = <<>>
      BY <1>4, <1>6, MarkOf, ContentsOf, ValueAssumption
    <2>2. c.pc = "mark"
      BY <1>1, <1>3, <1>6 DEF StagedPop
    <2>3. ret' = Result("pop", c.name, c.end, NotFound, 0)
      BY <1>3, <1>6, <2>2 DEF PopMark, PopItem, Return
    <2>4. Atomic!PopEmpty(c.name, c.end)
      BY <1>1, <1>4, <2>1, <2>3 DEF Atomic!PopEmpty, Result, Atomic!Result
    <2> QED
      BY <1>4, <2>4 DEF Atomic!Next, Ends
  <1>7. CASE mark # NotFound
    <2>1. CASE c.pc = "mark"
      BY <1>5, <1>7, <2>1 DEF PopMark, PopItem
    <2>2. CASE c.pc = "item"
      <3>1. c.mark = mark
        BY <1>3, <2>2 DEF StagedPop
      <3>2. mark \in Int /\ qsize(db, c.name) # 0
        BY <1>4, <1>7, MarkOf, ContentsOf
      <3>3. /\ Contents(db, c.name) \in Seq(Items) /\ Contents(db, c.name) # <<>>
            /\ db.item[c.name][mark] = IF c.end = QFRONT_SEQ THEN Head(Contents(db, c.name))
                                       ELSE Contents(db, c.name)[Len(Contents(db, c.name))]
        BY <1>4, <3>2, PopContents, ContentsOf
      <3>4. db.item[c.name][mark] \in Items
        BY <3>3, HeadTailProperties, ElementOfSeq, LenProperties
      <3>5. db.item[c.name][c.mark] # NotFound
        BY <3>1, <3>4, ValueAssumption
      <3>6. UNCHANGED ret
        BY <2>2, <3>5 DEF PopMark, PopItem
      <3> QED
        BY <1>5, <3>6
    <2> QED
      BY <1>1, <2>1, <2>2
  <1> QED
    BY <1>6, <1>7

LEMMA ServiceNextImplements ==
  ServiceInv /\ [Next]_vars => [Atomic!Next]_(Atomic!vars)
  <1> SUFFICES ASSUME ServiceInv, [Next]_vars PROVE [Atomic!Next]_(Atomic!vars)
    OBVIOUS
  <1>1. CASE UNCHANGED <<db, ret>>
    BY <1>1 DEF Atomic!vars
  <1>2. ASSUME NEW w \in Writers, WriterStep(w)
        PROVE  [Atomic!Next]_(Atomic!vars)
    <2>1. CASE \/ QpushCall(w) \/ QpopCall(w) \/ Begin(w) \/ PushMark(w) \/ PushSize(w)
               \/ PopSize(w) \/ Unlock(w) \/ Reply(w)
      BY <1>1, <2>1
      DEF QpushCall, QpopCall, StartCall, Begin, PushMark, PushSize, PopSize, Unlock, Reply
    <2> QED
      BY <1>2, <2>1, CommitImplements, RefusalImplements, PopReadsImplement
      DEF WriterStep, Transact
  <1>3. ASSUME NEW r \in Readers, ReaderStep(r)
        PROVE  [Atomic!Next]_(Atomic!vars)
    BY <1>1, <1>3 DEF ReaderStep, PeekMark, PeekItem, PeekError, PeekDone, PeekReply
  <1>4. CASE UNCHANGED vars
    BY <1>1, <1>4 DEF vars
  <1> QED
    BY <1>2, <1>3, <1>4 DEF Next

(* Whatever the interleaving of any number of writer and reader threads,    *)
(* each _qpush and _qpop takes effect as one operation on a deque: the      *)
(* mutex of the BinlogQueue keeps the shared batch to one transaction at a  *)
(* time, and a refused operation leaves nothing in it for the next.         *)
THEOREM ServiceIsAtomic == Spec => TransactionsAreAtomic
  <1> QED
    BY ServiceInitInv, ServiceNextInv, ServiceInitImplements, ServiceNextImplements, PTL
    DEF Spec, TransactionsAreAtomic, Atomic!Spec

-----------------------------------------------------------------------------
(* qfront and qback, without a lock.  While no item is popped, the item at  *)
(* the position a reader has read stays where it is, whatever is pushed and *)
(* whatever happens to the other queues.                                    *)

ItemAt(d, n, s) ==
    /\ ContiguousQueue(d, n)
    /\ s \in d.item[n][QFRONT_SEQ] .. d.item[n][QBACK_SEQ]

LEMMA ItemAtIsItem ==
  ASSUME NEW d \in Databases, NEW n \in Names, NEW s, ItemAt(d, n, s)
  PROVE  s \in Seqs \ Ends /\ d.item[n][s] \in Items
  <1>1. s \in Seqs \ Ends
    BY SeqAssumption DEF ItemAt, ContiguousQueue, Seqs, Ends, QFRONT_SEQ, QBACK_SEQ
  <1> QED
    BY <1>1 DEF ItemAt, ContiguousQueue

(* The end of a well-formed queue: nothing, or the position of an item.     *)
LEMMA EndOf ==
  ASSUME NEW d \in Databases, WellFormed(d), NEW n \in Names, NEW e \in Ends
  PROVE  \/ d.item[n][e] = NotFound /\ IsEmpty(d, n)
         \/ /\ d.item[n][e] # NotFound /\ ~IsEmpty(d, n)
            /\ d.item[n][e] \in Int /\ ItemAt(d, n, d.item[n][e])
            /\ EndItem(d, n, e) = d.item[n][d.item[n][e]]
            /\ EndItem(d, n, e) \in Items
  <1>1. CASE EmptyQueue(d, n)
    BY <1>1, EndsAreSeqs DEF EmptyQueue, IsEmpty, Ends
  <1>2. CASE ContiguousQueue(d, n)
    <2>1. ItemAt(d, n, d.item[n][e]) /\ d.item[n][e] \in Int
      BY <1>2, SeqAssumption DEF ContiguousQueue, Ends, ItemAt
    <2>2. d.item[n][QFRONT_SEQ] # NotFound /\ d.item[n][e] # NotFound
      BY <1>2, <2>1, SeqAssumption, ValueAssumption DEF ContiguousQueue
    <2>3. EndItem(d, n, e) = d.item[n][d.item[n][e]] /\ EndItem(d, n, e) \in Items
      BY <2>1, ItemAtIsItem DEF EndItem
    <2> QED
      BY <2>1, <2>2, <2>3 DEF IsEmpty
  <1> QED
    BY <1>1, <1>2 DEF WellFormed

LEMMA OthersKeepItem ==
  ASSUME NEW d \in Databases, NEW b \in Batches, NEW n \in Names, OnlyQueue(b, n),
         NEW m \in Names \ {n}, NEW s, ItemAt(d, m, s), NEW a, a = Applied(b, d)
  PROVE  ItemAt(a, m, s) /\ a.item[m][s] = d.item[m][s]
  <1>1. a.size[m] = d.size[m] /\ \A t \in Seqs : a.item[m][t] = d.item[m][t]
    BY DEF Applied, OnlyQueue
  <1>2. s \in Seqs
    BY ItemAtIsItem
  <1>3. ItemAt(a, m, s)
    BY <1>1, EndsAreSeqs DEF ItemAt, ContiguousQueue, Ends
  <1> QED
    BY <1>1, <1>2, <1>3

LEMMA PushKeepsItem ==
  ASSUME NEW d \in Databases, WellFormed(d), NEW n \in Names, NEW e \in Ends,
         NEW item \in Items, ~SeqOutOfRange(PushSeq(d.item[n][e], e)),
         NEW s, ItemAt(d, n, s),
         NEW a, a = Applied(PushBatch(d, EmptyBatch, n, e, d.item[n][e], item), d)
  PROVE  ItemAt(a, n, s) /\ a.item[n][s] = d.item[n][s]
  <1> DEFINE mark == d.item[n][e]
             seq == PushSeq(mark, e)
             front == d.item[n][QFRONT_SEQ]
             back == d.item[n][QBACK_SEQ]
  <1>1. /\ seq \in Seqs \ Ends
        /\ \A t \in Seqs :
              a.item[n][t] = IF t = seq THEN item
                             ELSE IF t = e \/ (mark = NotFound /\ t \in Ends)
                             THEN seq ELSE d.item[n][t]
        /\ ContiguousQueue(a, n)
    BY PushEffect
  <1>2. /\ front \in Int /\ back \in Int /\ s \in front..back /\ s \in Seqs \ Ends
        /\ mark = IF e = QFRONT_SEQ THEN front ELSE back
    BY ItemAtIsItem DEF ItemAt, ContiguousQueue, Ends
  <1> HIDE DEF front, back, mark
  <1>3. mark # NotFound /\ seq = IF e = QFRONT_SEQ THEN front - 1 ELSE back + 1
    BY <1>2, ValueAssumption DEF PushSeq
  <1>4. s # seq /\ s # e
    BY <1>2, <1>3
  <1> HIDE DEF seq
  <1>5. a.item[n][s] = d.item[n][s]
    BY <1>1, <1>2, <1>3, <1>4
  <1>6. /\ a.item[n][QFRONT_SEQ] = IF e = QFRONT_SEQ THEN front - 1 ELSE front
        /\ a.item[n][QBACK_SEQ] = IF e = QFRONT_SEQ THEN back ELSE back + 1
    <2>1. /\ QFRONT_SEQ \in Seqs /\ QBACK_SEQ \in Seqs /\ QFRONT_SEQ # QBACK_SEQ
          /\ QFRONT_SEQ # seq /\ QBACK_SEQ # seq /\ e \in {QFRONT_SEQ, QBACK_SEQ}
      BY <1>1, EndsAreSeqs DEF Ends, QFRONT_SEQ, QBACK_SEQ
    <2> QED
      BY <1>1, <1>3, <2>1 DEF front, back
  <1>7. s \in a.item[n][QFRONT_SEQ] .. a.item[n][QBACK_SEQ]
    BY <1>2, <1>6
  <1> QED
    BY <1>1, <1>5, <1>7 DEF ItemAt

Peeks == [pc : {"item"}, name : Names, end : Ends, mark : Int, emptied : BOOLEAN,
          popped : BOOLEAN, held : SUBSET ItemValues]
Answers == [pc : {"reply"}, status : {-1, 0, 1}, emptied : BOOLEAN,
            popped : BOOLEAN, seen : BOOLEAN]

(* What a reader has read stays true until an item is popped.               *)
PeekInv ==
    /\ reader \in [Readers -> Peeks \cup Answers \cup {Idle}]
    /\ \A r \in Readers :
          LET p == reader[r]
          IN  /\ p.pc = "item" /\ ~p.popped =>
                    ItemAt(db, p.name, p.mark) /\ db.item[p.name][p.mark] \in p.held
              /\ p.pc = "reply" /\ ~p.popped =>
                    (p.status = 1 => p.seen) /\ (p.status = 0 => p.emptied)

LEMMA PeekMarkInv ==
  ASSUME ServiceInv, PeekInv, NEW r \in Readers, PeekMark(r)
  PROVE  PeekInv'
  <1>1. PICK n \in Names, e \in Ends :
           LET mark == db.item[n][e]
           IN  /\ reader' = [reader EXCEPT ![r] =
                     IF mark = NotFound
                     THEN [pc |-> "reply", status |-> 0, emptied |-> IsEmpty(db, n),
                           popped |-> FALSE, seen |-> FALSE]
                     ELSE [pc |-> "item", name |-> n, end |-> e, mark |-> mark,
                           emptied |-> IsEmpty(db, n), popped |-> FALSE,
                           held |-> {EndItem(db, n, e)}]]
               /\ db' = db
    BY DEF PeekMark
  <1> DEFINE mark == db.item[n][e]
             answer == [pc |-> "reply", status |-> 0, emptied |-> IsEmpty(db, n),
                        popped |-> FALSE, seen |-> FALSE]
             peek == [pc |-> "item", name |-> n, end |-> e, mark |-> mark,
                      emptied |-> IsEmpty(db, n), popped |-> FALSE,
                      held |-> {EndItem(db, n, e)}]
  <1>2. /\ db \in Databases /\ WellFormed(db)
        /\ reader \in [Readers -> Peeks \cup Answers \cup {Idle}]
    BY DEF ServiceInv, PeekInv
  <1>3. mark = NotFound => IsEmpty(db, n)
    BY <1>2, EndOf
  <1>4. mark # NotFound => ItemAt(db, n, mark) /\ mark \in Int
    BY <1>2, EndOf
  <1>5. mark # NotFound => db.item[n][mark] \in ItemValues /\ EndItem(db, n, e) = db.item[n][mark]
    BY <1>2, EndOf DEF ItemValues
  <1>6. IsEmpty(db, n) \in BOOLEAN
    BY DEF IsEmpty
  <1>7. answer \in Answers
    BY <1>6 DEF Answers
  <1>8. mark # NotFound => peek \in Peeks
    BY <1>4, <1>5, <1>6 DEF Peeks
  <1> DEFINE p == IF mark = NotFound THEN answer ELSE peek
  <1>9. reader' = [reader EXCEPT ![r] = p] /\ db' = db
    BY <1>1
  <1>10. /\ p \in Peeks \cup Answers
         /\ p.pc = "item" => ItemAt(db, p.name, p.mark) /\ db.item[p.name][p.mark] \in p.held
         /\ p.pc = "reply" => (p.status = 1 => p.seen) /\ (p.status = 0 => p.emptied)
    <2>1. CASE mark = NotFound
      <3>1. p = answer
        BY <2>1
      <3> HIDE DEF mark, p
      <3> QED
        BY <1>3, <1>7, <2>1, <3>1
    <2>2. CASE mark # NotFound
      <3>1. p = peek
        BY <2>2
      <3> HIDE DEF mark, p
      <3> QED
        BY <1>4, <1>5, <1>8, <2>2, <3>1
    <2> QED
      BY <2>1, <2>2
  <1> HIDE DEF p
  <1> QED
    BY <1>2, <1>9, <1>10 DEF PeekInv

LEMMA PeekDoneInv ==
  ASSUME ServiceInv, PeekInv, NEW r \in Readers, PeekItem(r) \/ PeekError(r)
  PROVE  PeekInv'
  <1> DEFINE p == reader[r]
             item == db.item[p.name][p.mark]
  <1>1. PICK status, got :
           /\ status \in {-1, 0, 1}
           /\ PeekDone(r, status, got)
           /\ status # -1 => got = item /\ (status = 1 <=> item # NotFound)
    BY DEF PeekItem, PeekError
  <1> DEFINE a == [pc |-> "reply", status |-> status, emptied |-> p.emptied,
                   popped |-> p.popped, seen |-> got \in p.held]
  <1>2. p.pc = "item" /\ reader' = [reader EXCEPT ![r] = a] /\ db' = db
    BY <1>1 DEF PeekDone
  <1>3. /\ reader \in [Readers -> Peeks \cup Answers \cup {Idle}]
        /\ p.pc = "item" /\ ~p.popped => ItemAt(db, p.name, p.mark) /\ item \in p.held
    BY DEF PeekInv
  <1>4. p \in Peeks
    BY <1>2, <1>3 DEF Answers, Idle
  <1>5. a \in Answers
    <2>1. p.emptied \in BOOLEAN /\ p.popped \in BOOLEAN
      BY <1>4 DEF Peeks
    <2>2. status \in {-1, 0, 1}
      BY <1>1
    <2> HIDE DEF p
    <2> QED
      BY <2>1, <2>2 DEF Answers
  <1>6. ~p.popped => item # NotFound /\ item \in p.held
    <2>1. p.name \in Names
      BY <1>4 DEF Peeks
    <2>2. db \in Databases
      BY DEF ServiceInv
    <2> HIDE DEF p
    <2> QED
      BY <1>2, <1>3, <2>1, <2>2, ItemAtIsItem, ValueAssumption
  <1>7. /\ a.pc = "reply"
        /\ ~a.popped => (a.status = 1 => a.seen) /\ (a.status = 0 => a.emptied)
    <2>1. a.pc = "reply" /\ a.popped = p.popped /\ a.status = status /\ a.seen = (got \in p.held)
      OBVIOUS
    <2> HIDE DEF a, p, item
    <2>2. ASSUME ~a.popped PROVE a.status # 0
      BY <1>1, <1>6, <2>1, <2>2
    <2>3. ASSUME ~a.popped, a.status = 1 PROVE a.seen
      <3>1. got \in p.held
        BY <1>1, <1>6, <2>1, <2>3
      <3> QED
        BY <2>1, <3>1
    <2> QED
      BY <2>1, <2>2, <2>3
  <1> HIDE DEF a, p
  <1> QED
    BY <1>2, <1>3, <1>5, <1>7 DEF PeekInv

LEMMA PeekReplyInv ==
  ASSUME PeekInv, NEW r \in Readers, PeekReply(r)
  PROVE  PeekInv'
  BY DEF PeekInv, PeekReply, Idle

LEMMA PeekCommitInv ==
  ASSUME ServiceInv, PeekInv, NEW w \in Writers, Commit(w)
  PROVE  PeekInv'
  <1> DEFINE c == writer[w]
             n == c.name
             mark == db.item[n][c.end]
  <1>1. /\ c.pc = "commit" /\ db' = Applied(batch, db)
        /\ reader' = [r \in Readers |->
              IF reader[r].pc # "item" \/ reader[r].name # n THEN reader[r]
              ELSE [reader[r] EXCEPT
                      !.emptied = @ \/ IsEmpty(db', n),
                      !.popped = @ \/ c.op = "pop",
                      !.held = @ \cup IF IsEmpty(db', n) THEN {}
                                      ELSE {EndItem(db', n, reader[r].end)}]]
    BY DEF Commit, Witness
  <1>2. /\ c \in Calls /\ n \in Names /\ c.end \in Ends
        /\ c.op = "push" =>
              /\ PushedItem(c) \in Items
              /\ ~SeqOutOfRange(PushSeq(mark, c.end))
              /\ batch = PushBatch(db, EmptyBatch, n, c.end, mark, PushedItem(c))
        /\ c.op = "pop" =>
              /\ mark \in Int /\ qsize(db, n) # 0
              /\ batch = PopBatch(db, EmptyBatch, n, c.end, mark)
    BY <1>1, CommitFinds
  <1>3. /\ db \in Databases /\ WellFormed(db)
        /\ reader \in [Readers -> Peeks \cup Answers \cup {Idle}]
    BY DEF ServiceInv, PeekInv
  <1> HIDE DEF c, n
  <1>4. c.op \in {"push", "pop"}
    BY <1>2 DEF Calls
  <1>5. batch \in Batches /\ OnlyQueue(batch, n)
    <2>1. CASE c.op = "push"
      BY <1>2, <1>3, <2>1, PushEffect
    <2>2. CASE c.op = "pop"
      BY <1>2, <1>3, <2>2, PopEffect
    <2> QED
      BY <1>4, <2>1, <2>2
  <1>6. db' \in Databases /\ WellFormed(db')
    <2>1. CASE c.op = "push"
      BY <1>1, <1>2, <1>3, <2>1, PushPreserves, AppliedType
    <2>2. CASE c.op = "pop"
      BY <1>1, <1>2, <1>3, <2>2, PopPreserves, AppliedType
    <2> QED
      BY <1>4, <2>1, <2>2
  <1> DEFINE Good(p) == /\ p \in Peeks \cup Answers \cup {Idle}
                        /\ p.pc = "item" /\ ~p.popped =>
                              ItemAt(db', p.name, p.mark) /\ db'.item[p.name][p.mark] \in p.held
                        /\ p.pc = "reply" /\ ~p.popped =>
                              (p.status = 1 => p.seen) /\ (p.status = 0 => p.emptied)
  <1>7. ASSUME NEW r \in Readers PROVE Good(reader'[r])
    <2> DEFINE p == reader[r]
    <2>1. /\ p \in Peeks \cup Answers \cup {Idle}
          /\ p.pc = "item" /\ ~p.popped =>
                ItemAt(db, p.name, p.mark) /\ db.item[p.name][p.mark] \in p.held
          /\ p.pc = "reply" /\ ~p.popped =>
                (p.status = 1 => p.seen) /\ (p.status = 0 => p.emptied)
      BY DEF PeekInv
    <2>2. CASE p.pc # "item"
      <3>1. reader'[r] = p
        BY <1>1, <2>2
      <3> HIDE DEF p
      <3> QED
        BY <2>1, <2>2, <3>1
    <2>3. CASE p.pc = "item" /\ p.name # n
      <3>1. reader'[r] = p
        BY <1>1, <2>3
      <3> HIDE DEF p
      <3>2. p \in Peeks /\ p.name \in Names
        BY <2>1, <2>3 DEF Peeks, Answers, Idle
      <3>3. ~p.popped => ItemAt(db', p.name, p.mark) /\ db'.item[p.name][p.mark] \in p.held
        <4>1. p.name \in Names \ {n} /\ n \in Names
          BY <1>2, <2>3, <3>2
        <4>2. ~p.popped => ItemAt(db, p.name, p.mark) /\ db.item[p.name][p.mark] \in p.held
          BY <2>1, <2>3
        <4>3. PICK a : a = db'
          OBVIOUS
        <4>4. a = Applied(batch, db)
          BY <1>1, <4>3
        <4>5. ~p.popped => ItemAt(a, p.name, p.mark) /\ a.item[p.name][p.mark] = db.item[p.name][p.mark]
          BY <1>3, <1>5, <4>1, <4>2, <4>4, OthersKeepItem
        <4> QED
          BY <4>2, <4>3, <4>5
      <3> QED
        BY <2>3, <3>1, <3>2, <3>3
    <2>4. CASE p.pc = "item" /\ p.name = n
      <3> DEFINE emptied == p.emptied \/ IsEmpty(db', n)
                 popped == p.popped \/ c.op = "pop"
                 held == p.held \cup IF IsEmpty(db', n) THEN {} ELSE {EndItem(db', n, p.end)}
                 p1 == [p EXCEPT !.emptied = emptied]
                 p2 == [p1 EXCEPT !.popped = popped]
                 p3 == [p2 EXCEPT !.held = held]
      <3>1. p \in Peeks /\ p.end \in Ends
        BY <2>1, <2>4 DEF Peeks, Answers, Idle
      <3>2. reader'[r] = p3
        <4>1. reader'[r] = [p EXCEPT !.emptied = emptied, !.popped = popped, !.held = held]
          BY <1>1, <2>4
        <4> HIDE DEF p, emptied, popped, held
        <4> QED
          BY <3>1, <4>1 DEF Peeks
      <3> HIDE DEF p
      <3>3. emptied \in BOOLEAN /\ popped \in BOOLEAN
        BY <3>1 DEF Peeks
      <3>4. held \in SUBSET ItemValues
        <4>1. p.held \in SUBSET ItemValues
          BY <3>1 DEF Peeks
        <4>2. ~IsEmpty(db', n) => EndItem(db', n, p.end) \in ItemValues
          <5> SUFFICES ASSUME ~IsEmpty(db', n) PROVE EndItem(db', n, p.end) \in ItemValues
            OBVIOUS
          <5> QED
            BY <1>2, <1>6, <3>1, EndOf DEF ItemValues
        <4> QED
          BY <4>1, <4>2
      <3>5. p.held \subseteq held
        OBVIOUS
      <3>6. popped <=> p.popped \/ c.op = "pop"
        OBVIOUS
      <3> HIDE DEF emptied, popped, held
      <3>7. /\ p1 \in Peeks /\ p1.name = p.name /\ p1.mark = p.mark
        BY <3>1, <3>3 DEF Peeks
      <3> HIDE DEF p1
      <3>8. /\ p2 \in Peeks /\ p2.name = p.name /\ p2.mark = p.mark /\ p2.popped = popped
        BY <3>3, <3>7 DEF Peeks
      <3> HIDE DEF p2
      <3>9. /\ p3 \in Peeks /\ p3.name = p.name /\ p3.mark = p.mark /\ p3.popped = popped
            /\ p3.held = held /\ p3.pc = "item"
        BY <3>4, <3>8 DEF Peeks
      <3> HIDE DEF p3
      <3>10. ASSUME ~popped
             PROVE  ItemAt(db', n, p.mark) /\ db'.item[n][p.mark] \in held
        <4>1. c.op = "push" /\ ItemAt(db, n, p.mark) /\ db.item[n][p.mark] \in p.held
          BY <1>4, <2>1, <2>4, <3>6, <3>10
        <4>2. ItemAt(db', n, p.mark) /\ db'.item[n][p.mark] = db.item[n][p.mark]
          <5>1. db' = Applied(PushBatch(db, EmptyBatch, n, c.end, mark, PushedItem(c)), db)
            BY <1>1, <1>2, <4>1
          <5> QED
            BY <1>2, <1>3, <4>1, <5>1, PushKeepsItem
        <4> QED
          BY <3>5, <4>1, <4>2
      <3> QED
        BY <2>4, <3>2, <3>9, <3>10
    <2> QED
      BY <2>2, <2>3, <2>4
  <1>8. reader' \in [Readers -> Peeks \cup Answers \cup {Idle}]
    BY <1>1, <1>7
  <1> QED
    BY <1>7, <1>8 DEF PeekInv

LEMMA PeekNextInv == ServiceInv /\ PeekInv /\ [Next]_vars => PeekInv'
  <1> SUFFICES ASSUME ServiceInv, PeekInv, [Next]_vars PROVE PeekInv'
    OBVIOUS
  <1>1. CASE UNCHANGED <<db, reader>>
    BY <1>1 DEF PeekInv
  <1>2. ASSUME NEW w \in Writers, WriterStep(w) PROVE PeekInv'
    BY <1>1, <1>2, PeekCommitInv
    DEF WriterStep, Transact, QpushCall, QpopCall, StartCall, Begin, PushMark, PushFull,
        PushSize, PopMark, PopItem, PopSize, Fail, Unlock, Reply
  <1>3. ASSUME NEW r \in Readers, ReaderStep(r) PROVE PeekInv'
    BY <1>3, PeekMarkInv, PeekDoneInv, PeekReplyInv DEF ReaderStep
  <1>4. CASE UNCHANGED vars
    BY <1>1, <1>4 DEF vars
  <1> QED
    BY <1>2, <1>3, <1>4 DEF Next

(* qfront and qback take no lock, yet while no item of the queue is popped  *)
(* between their two Gets they answer an item that was at that end during   *)
(* the call, and not_found only about a queue that was empty during it.     *)
THEOREM PeeksAreRight == Spec => []PeekIsRightWithoutPops
  <1>1. Init => PeekInv
    BY DEF Init, PeekInv, Idle
  <1>2. PeekInv => PeekIsRightWithoutPops
    BY DEF PeekInv, PeekIsRightWithoutPops
  <1> QED
    BY <1>1, <1>2, ServiceInvariant, PeekNextInv, PTL DEF Spec

-----------------------------------------------------------------------------
(* A qpush or qpop of several items.  AfterItems computes what its first    *)
(* items make of the queue; the facts about it rest on induction over the   *)
(* natural numbers, in the form of a set that is closed under successors.   *)
LEMMA NatSetInduction ==
  ASSUME NEW S, 0 \in S, \A k \in Nat : k \in S => k + 1 \in S
  PROVE  Nat \subseteq S
  <1> DEFINE T == Nat \ S
             R == OpToRel(<, Nat)
  <1>1. SUFFICES ASSUME T # {} PROVE FALSE
    OBVIOUS
  <1>2. \A x, y \in Nat : x < y => <<x, y>> \in R
    BY DEF OpToRel
  <1>3. PICK m \in T : \A y \in T : ~(<<y, m>> \in R)
    <2> HIDE DEF R
    <2>1. IsWellFoundedOn(R, Nat)
      BY NatLessThanWellFounded DEF R
    <2> HIDE DEF T
    <2>2. T \subseteq Nat
      BY DEF T
    <2> QED
      BY <1>1, <2>1, <2>2, WFMin
  <1>4. m \in Nat /\ m # 0 /\ m - 1 \in Nat /\ m - 1 < m
    OBVIOUS
  <1>5. m - 1 \notin T
    <2> HIDE DEF R, T
    <2> QED
      BY <1>2, <1>3, <1>4
  <1>6. m - 1 + 1 = m
    BY <1>4
  <1> QED
    BY <1>4, <1>5, <1>6

(* One more item of a call.                                                 *)
OneItem(op, q, e, items, i) ==
    IF op = "pop" THEN Atomic!Popped(q, e) ELSE Atomic!Pushed(q, e, items[i])

(* f is the function AfterItems chooses, which exists ...                   *)
IsAfter(f, op, q, e, items, n) ==
    f = [i \in 0..n |-> IF i = 0 THEN q ELSE OneItem(op, f[i-1], e, items, i)]

LEMMA AfterFunction ==
  ASSUME NEW op, NEW q, NEW e, NEW items, NEW n \in Nat
  PROVE  \E f : IsAfter(f, op, q, e, items, n)
  <1> DEFINE P(k) == \E f : IsAfter(f, op, q, e, items, k)
             S == {k \in Nat : P(k)}
  <1>1. P(0)
    <2> DEFINE f == [i \in 0..0 |-> q]
    <2>1. f = [i \in 0..0 |-> IF i = 0 THEN q ELSE OneItem(op, f[i-1], e, items, i)]
      OBVIOUS
    <2> HIDE DEF f
    <2> QED
      BY <2>1 DEF IsAfter
  <1>2. ASSUME NEW k \in Nat, P(k) PROVE P(k + 1)
    <2>1. PICK f : f = [i \in 0..k |-> IF i = 0 THEN q ELSE OneItem(op, f[i-1], e, items, i)]
      BY <1>2 DEF IsAfter
    <2> DEFINE h == [i \in 0..k+1 |-> IF i = k+1 THEN OneItem(op, f[k], e, items, k+1) ELSE f[i]]
               r == [i \in 0..k+1 |-> IF i = 0 THEN q ELSE OneItem(op, h[i-1], e, items, i)]
    <2>2. \A i \in 0..k+1 :
             h[i] = IF i = k+1 THEN OneItem(op, f[k], e, items, k+1) ELSE f[i]
      OBVIOUS
    <2>3. DOMAIN h = 0..k+1 /\ h = [i \in DOMAIN h |-> h[i]]
      OBVIOUS
    <2> HIDE DEF h
    <2>4. \A i \in 0..k : i \in 0..k+1 /\ h[i] = f[i]
      BY <2>2
    <2>5. ASSUME NEW i \in 0..k+1
          PROVE  h[i] = IF i = 0 THEN q ELSE OneItem(op, h[i-1], e, items, i)
      <3>1. CASE i = k + 1
        <4>1. i # 0 /\ i - 1 = k /\ k \in 0..k
          BY <3>1
        <4> QED
          BY <2>2, <2>4, <3>1, <4>1
      <3>2. CASE i = 0
        <4>1. 0 \in 0..k
          OBVIOUS
        <4> QED
          BY <2>1, <2>4, <3>2, <4>1
      <3>3. CASE i # k + 1 /\ i # 0
        <4>1. i \in 0..k /\ i - 1 \in 0..k
          BY <3>3
        <4>2. f[i] = OneItem(op, f[i-1], e, items, i)
          BY <2>1, <3>3, <4>1
        <4> QED
          BY <2>4, <3>3, <4>1, <4>2
      <3> QED
        BY <3>1, <3>2, <3>3
    <2>6. h = r
      BY <2>3, <2>5
    <2> QED
      BY <2>6 DEF IsAfter
  <1>3. n \in S
    <2> HIDE DEF P
    <2>1. 0 \in S /\ \A k \in Nat : k \in S => k + 1 \in S
      BY <1>1, <1>2
    <2> HIDE DEF S
    <2> QED
      BY <2>1, NatSetInduction
  <1> QED
    BY <1>3

(* ... and f follows the queue item by item.                                *)
Follows(f, op, q, e, items, n) ==
    /\ f[0] = q
    /\ \A i \in 1..n : f[i] = OneItem(op, f[i-1], e, items, i)

LEMMA AfterIs ==
  ASSUME NEW op, NEW q, NEW e, NEW items, NEW n \in Nat
  PROVE  \E f : AfterItems(op, q, e, items, n) = f[n] /\ Follows(f, op, q, e, items, n)
  <1> DEFINE after[i \in 0..n] ==
           IF i = 0 THEN q
           ELSE IF op = "pop" THEN Atomic!Popped(after[i-1], e)
           ELSE Atomic!Pushed(after[i-1], e, items[i])
  <1>1. IsAfter(after, op, q, e, items, n)
    <2>1. after = CHOOSE f : IsAfter(f, op, q, e, items, n)
      BY DEF IsAfter, OneItem
    <2> HIDE DEF after
    <2> QED
      BY <2>1, AfterFunction, Zenon
  <1>2. AfterItems(op, q, e, items, n) = after[n]
    BY DEF AfterItems
  <1> HIDE DEF after
  <1>3. Follows(after, op, q, e, items, n)
    BY <1>1 DEF IsAfter, Follows
  <1> QED
    BY <1>2, <1>3

LEMMA AfterAgrees ==
  ASSUME NEW op, NEW q, NEW e, NEW items1, NEW items2, NEW n \in Nat, NEW f, NEW g,
         Follows(f, op, q, e, items1, n), Follows(g, op, q, e, items2, n),
         op = "pop" \/ items1 = items2
  PROVE  f[n] = g[n]
  <1> DEFINE S == {k \in Nat : k <= n => f[k] = g[k]}
  <1>1. 0 \in S
    BY DEF Follows
  <1>2. ASSUME NEW k \in Nat, k \in S PROVE k + 1 \in S
    <2> SUFFICES ASSUME k + 1 <= n PROVE f[k+1] = g[k+1]
      OBVIOUS
    <2>1. f[k] = g[k] /\ k + 1 \in 1..n /\ k + 1 - 1 = k
      BY <1>2
    <2>2. /\ f[k+1] = OneItem(op, f[k], e, items1, k+1)
          /\ g[k+1] = OneItem(op, g[k], e, items2, k+1)
      BY <2>1 DEF Follows
    <2> QED
      BY <2>1, <2>2 DEF OneItem
  <1>3. n \in S
    <2> HIDE DEF S
    <2> QED
      BY <1>1, <1>2, NatSetInduction
  <1> QED
    BY <1>3

LEMMA AfterZero ==
  ASSUME NEW op, NEW q, NEW e, NEW items
  PROVE  AfterItems(op, q, e, items, 0) = q
  BY AfterIs DEF Follows

LEMMA AfterNext ==
  ASSUME NEW op, NEW q, NEW e, NEW items, NEW n \in Nat
  PROVE  AfterItems(op, q, e, items, n + 1)
            = OneItem(op, AfterItems(op, q, e, items, n), e, items, n + 1)
  <1>1. n + 1 \in Nat /\ n + 1 \in 1..n+1 /\ n + 1 - 1 = n /\ \A i \in 1..n : i \in 1..n+1
    OBVIOUS
  <1>2. PICK f : /\ AfterItems(op, q, e, items, n) = f[n]
                 /\ Follows(f, op, q, e, items, n)
    BY AfterIs
  <1>3. PICK g : /\ AfterItems(op, q, e, items, n+1) = g[n+1]
                 /\ Follows(g, op, q, e, items, n+1)
    BY <1>1, AfterIs
  <1>4. f[n] = g[n]
    <2>1. Follows(g, op, q, e, items, n)
      BY <1>1, <1>3 DEF Follows
    <2> QED
      BY <1>2, <2>1, AfterAgrees
  <1>5. g[n+1] = OneItem(op, g[n], e, items, n+1)
    BY <1>1, <1>3 DEF Follows
  <1> QED
    BY <1>2, <1>3, <1>4, <1>5

(* What pops leave does not depend on what they returned.                   *)
LEMMA AfterPops ==
  ASSUME NEW q, NEW e, NEW items1, NEW items2, NEW n \in Nat
  PROVE  AfterItems("pop", q, e, items1, n) = AfterItems("pop", q, e, items2, n)
  <1>1. PICK f : /\ AfterItems("pop", q, e, items1, n) = f[n]
                 /\ Follows(f, "pop", q, e, items1, n)
    BY AfterIs
  <1>2. PICK g : /\ AfterItems("pop", q, e, items2, n) = g[n]
                 /\ Follows(g, "pop", q, e, items2, n)
    BY AfterIs
  <1>3. f[n] = g[n]
    BY <1>1, <1>2, AfterAgrees
  <1> QED
    BY <1>1, <1>2, <1>3

(* What CallIsAPrefix says of a call c on a queue that holds q, at every    *)
(* step of the call and not only when it replies.                           *)
PrefixOf(c, q) ==
    /\ q = AfterItems(c.op, c.before, c.end, c.items, Committed(c))
    /\ c.op = "push" /\ c.pc \in {"unlock", "reply"} /\ c.val # -1 => c.val = Len(q)
    /\ c.op = "pop" =>
          /\ \A i \in 1..Len(c.items) :
                c.items[i] = Atomic!Peeked(
                    AfterItems("pop", c.before, c.end, c.items, i - 1), c.end)
          /\ c.pc \in {"unlock", "reply"} /\ c.val = 0 => q = <<>>

PrefixInv ==
    \A w \in Writers :
       writer[w] # Idle => PrefixOf(writer[w], Contents(db, writer[w].name))

(* The writer pool of the server has one thread (WRITER_THREADS).           *)
SingleWriter == \A v, w \in Writers : v = w

(* A step that commits nothing, and refuses nothing but with -1 or on an    *)
(* empty queue.                                                             *)
LEMMA KeepsPrefix ==
  ASSUME NEW c, NEW c2, NEW q, PrefixOf(c, q),
         c2.op = c.op, c2.before = c.before, c2.end = c.end, c2.items = c.items,
         Committed(c2) = Committed(c),
         \/ c2.pc \notin {"unlock", "reply"}
         \/ (c2.op = "push" /\ c2.val = -1)
         \/ (c2.op = "pop" /\ q = <<>>)
         \/ (c.pc = "unlock" /\ c2.val = c.val)
  PROVE  PrefixOf(c2, q)
  BY DEF PrefixOf

(* A step of the only writer thread.                                        *)
LEMMA OneWriterPrefix ==
  ASSUME SingleWriter, ServiceInv, NEW w \in Writers, NEW c2,
         writer' = [writer EXCEPT ![w] = c2],
         c2 # Idle => PrefixOf(c2, Contents(db', c2.name))
  PROVE  PrefixInv'
  <1>1. writer'[w] = c2
    BY DEF ServiceInv
  <1>2. \A v \in Writers : v = w
    BY DEF SingleWriter
  <1> QED
    BY <1>1, <1>2 DEF PrefixInv

LEMMA SetPc ==
  ASSUME NEW c \in Calls,
         NEW pc \in {"begin", "mark", "item", "size", "commit", "unlock", "reply"}
  PROVE  LET c2 == [c EXCEPT !.pc = pc]
         IN  /\ c2 \in Calls /\ c2.pc = pc /\ c2.op = c.op /\ c2.name = c.name
             /\ c2.end = c.end /\ c2.items = c.items /\ c2.count = c.count
             /\ c2.done = c.done /\ c2.mark = c.mark /\ c2.val = c.val
             /\ c2.before = c.before
  BY DEF Calls

LEMMA StartPrefix ==
  ASSUME SingleWriter, ServiceInv, NEW w \in Writers, QpushCall(w) \/ QpopCall(w)
  PROVE  PrefixInv'
  <1>1. PICK op \in {"push", "pop"}, n \in Names, e \in Ends, k \in 1..MaxItems :
           \E items : /\ StartCall(w, Call(op, n, e, items, k))
                      /\ op = "pop" => items = <<>>
    BY DEF QpushCall, QpopCall
  <1>2. PICK items : /\ StartCall(w, Call(op, n, e, items, k))
                     /\ op = "pop" => items = <<>>
    BY <1>1
  <1> DEFINE c == Call(op, n, e, items, k)
  <1>3. writer' = [writer EXCEPT ![w] = c] /\ db' = db
    BY <1>2 DEF StartCall
  <1>4. /\ c.pc = "begin" /\ c.op = op /\ c.name = n /\ c.end = e /\ c.items = items
        /\ c.done = 0 /\ c.before = Contents(db, n)
    BY DEF Call
  <1> HIDE DEF c
  <1>5. PrefixOf(c, Contents(db, n))
    <2>1. Contents(db, n) = AfterItems(c.op, c.before, c.end, c.items, Committed(c))
      BY <1>4, AfterZero DEF Committed
    <2>2. op = "pop" => Len(items) = 0
      BY <1>2
    <2> QED
      BY <1>4, <2>1, <2>2 DEF PrefixOf
  <1> QED
    BY <1>3, <1>4, <1>5, OneWriterPrefix

LEMMA SetValFields ==
  ASSUME NEW c \in Calls, NEW v, NEW pc
  PROVE  LET c2 == WithVal(c, v, pc)
         IN  /\ c2.pc = pc /\ c2.op = c.op /\ c2.name = c.name
             /\ c2.end = c.end /\ c2.items = c.items /\ c2.count = c.count
             /\ c2.done = c.done /\ c2.mark = c.mark /\ c2.val = v
             /\ c2.before = c.before
  BY DEF Calls, WithVal

(* The steps that stage a transaction.                                      *)
LEMMA GotoPrefix ==
  ASSUME SingleWriter, ServiceInv, PrefixInv, NEW w \in Writers,
         writer[w].pc \in {"begin", "mark", "size"}, NEW v \in Int,
         NEW pc \in {"begin", "mark", "item", "size", "commit", "unlock", "reply"},
         pc \in {"mark", "size", "commit", "unlock"},
         pc = "unlock" => (writer[w].op = "push" /\ v = -1),
         writer' = [writer EXCEPT ![w] = WithVal(writer[w], v, pc)],
         db' = db
  PROVE  PrefixInv'
  <1> DEFINE c == writer[w]
             c2 == WithVal(c, v, pc)
  <1>1. c \in Calls /\ c # Idle /\ PrefixOf(c, Contents(db, c.name))
    BY CallFacts DEF PrefixInv
  <1>2. writer' = [writer EXCEPT ![w] = c2]
    OBVIOUS
  <1>3. c \in Calls
    BY <1>1
  <1>4. c.pc \in {"begin", "mark", "size"} /\ (pc = "unlock" => c.op = "push" /\ v = -1)
    OBVIOUS
  <1> HIDE DEF c
  <1>5. /\ c2.pc = pc /\ c2.op = c.op /\ c2.name = c.name /\ c2.end = c.end
        /\ c2.items = c.items /\ c2.done = c.done /\ c2.val = v /\ c2.before = c.before
    BY <1>3, SetValFields
  <1> HIDE DEF c2
  <1>6. Committed(c2) = Committed(c)
    BY <1>4, <1>5 DEF Committed, Succeeded
  <1>7. PrefixOf(c2, Contents(db, c2.name))
    BY <1>1, <1>4, <1>5, <1>6, KeepsPrefix
  <1> QED
    BY <1>2, <1>7, OneWriterPrefix

LEMMA StagingPrefix ==
  ASSUME SingleWriter, ServiceInv, PrefixInv, NEW w \in Writers,
         \/ Begin(w) \/ PushMark(w) \/ PushSize(w) \/ PushFull(w) \/ PopSize(w)
  PROVE  PrefixInv'
  <1> DEFINE c == writer[w]
  <1>1. c.pc \in {"begin", "mark", "size"} /\ db' = db
    BY DEF Begin, PushMark, PushSize, PushFull, PopSize
  <1>2. c \in Calls
    BY <1>1, CallFacts
  <1>3. c.val \in Int /\ c = [c EXCEPT !.val = c.val] /\ c.name \in Names
    <2> HIDE DEF c
    <2> QED
      BY <1>2 DEF Calls
  <1>4. ASSUME NEW pc, writer' = [writer EXCEPT ![w] = [c EXCEPT !.pc = pc]]
        PROVE  writer' = [writer EXCEPT ![w] = WithVal(c, c.val, pc)]
    BY <1>3, <1>4 DEF WithVal
  <1>5. CASE Begin(w)
    BY <1>1, <1>3, <1>4, <1>5, GotoPrefix DEF Begin, Goto
  <1>6. CASE PushMark(w)
    BY <1>1, <1>3, <1>4, <1>6, GotoPrefix DEF PushMark, Goto
  <1>7. CASE PushSize(w)
    <2>1. qsize(db, c.name) + 1 \in Int
      BY <1>3, QsizeType DEF ServiceInv
    <2>2. writer' = [writer EXCEPT ![w] = WithVal(c, qsize(db, c.name) + 1, "commit")]
      BY <1>7 DEF PushSize, Goto, WithVal
    <2> QED
      BY <1>1, <2>1, <2>2, GotoPrefix
  <1>8. CASE PushFull(w)
    <2>1. PICK v \in Int : v = -1
      OBVIOUS
    <2>2. writer' = [writer EXCEPT ![w] = WithVal(c, v, "unlock")] /\ c.op = "push"
      BY <1>8, <2>1 DEF PushFull, Return, Goto, WithVal
    <2> QED
      BY <1>1, <2>1, <2>2, GotoPrefix
  <1>9. CASE PopSize(w)
    BY <1>1, <1>3, <1>4, <1>9, GotoPrefix DEF PopSize, Goto
  <1> QED
    BY <1>5, <1>6, <1>7, <1>8, <1>9

LEMMA PopMarkPrefix ==
  ASSUME SingleWriter, ServiceInv, PrefixInv, NEW w \in Writers, PopMark(w)
  PROVE  PrefixInv'
  <1> DEFINE c == writer[w]
             mark == db.item[c.name][c.end]
  <1>1. c.pc = "mark" /\ c.op = "pop" /\ db' = db
    BY DEF PopMark
  <1>2. c \in Calls /\ c # Idle /\ PrefixOf(c, Contents(db, c.name))
    BY <1>1, CallFacts DEF PrefixInv
  <1>3. c.name \in Names /\ c.end \in Ends /\ db \in Databases /\ WellFormed(db)
    BY <1>2 DEF Calls, ServiceInv
  <1>4. PICK c2 : /\ writer' = [writer EXCEPT ![w] = c2]
                  /\ \/ mark = NotFound /\ c2 = WithVal(c, 0, "unlock")
                     \/ c2 = [[c EXCEPT !.mark = mark] EXCEPT !.pc = "item"]
    BY DEF PopMark, Return, Goto, WithVal
  <1> HIDE DEF c
  <1>5. /\ c2.op = c.op /\ c2.name = c.name /\ c2.end = c.end
        /\ c2.items = c.items /\ c2.done = c.done /\ c2.before = c.before
        /\ \/ mark = NotFound /\ c2.pc = "unlock" /\ c2.val = 0
           \/ c2.pc = "item"
    <2>1. CASE mark = NotFound /\ c2 = WithVal(c, 0, "unlock")
      <3> HIDE DEF mark
      <3> QED
        <4>1. c \in Calls
          BY <1>2
        <4>2. LET c1 == WithVal(c, 0, "unlock")
              IN  /\ c1.op = c.op /\ c1.name = c.name /\ c1.end = c.end
                  /\ c1.items = c.items /\ c1.done = c.done /\ c1.before = c.before
                  /\ c1.pc = "unlock" /\ c1.val = 0
          BY <4>1, SetVal
        <4> QED
          BY <2>1, <4>2
    <2>2. CASE c2 = [[c EXCEPT !.mark = mark] EXCEPT !.pc = "item"]
      <3> HIDE DEF mark
      <3> QED
        BY <1>2, <2>2 DEF Calls
    <2> QED
      BY <1>4, <2>1, <2>2
  <1>6. mark = NotFound => Contents(db, c.name) = <<>>
    BY <1>3, MarkOf, ContentsOf, ValueAssumption
  <1>7. Committed(c2) = Committed(c)
    BY <1>1, <1>5 DEF Committed, Succeeded
  <1>8. PrefixOf(c2, Contents(db', c2.name))
    BY <1>1, <1>2, <1>5, <1>6, <1>7, KeepsPrefix
  <1> QED
    BY <1>4, <1>8, OneWriterPrefix

(* A qpop reads the item that is at its end of the queue.                   *)
LEMMA PopItemPrefix ==
  ASSUME SingleWriter, ServiceInv, PrefixInv, NEW w \in Writers, PopItem(w)
  PROVE  PrefixInv'
  <1> DEFINE c == writer[w]
             n == c.name
             q == Contents(db, n)
             item == db.item[n][c.mark]
             more == Append(c.items, item)
             After(items, i) == AfterItems("pop", c.before, c.end, items, i)
  <1>1. c.pc = "item" /\ db' = db
    BY DEF PopItem
  <1>2. /\ c \in Calls /\ c # Idle /\ CallCounts(c) /\ c.op = "pop"
        /\ StagedPop(c, db, batch) /\ PrefixOf(c, q)
    BY <1>1, CallFacts DEF CallCounts, PrefixInv
  <1>3. /\ n \in Names /\ c.end \in Ends /\ c.items \in Seq(Items) /\ c.done \in Nat
        /\ db \in Databases /\ WellFormed(db)
    <2> HIDE DEF c
    <2> QED
      BY <1>2 DEF Calls, ServiceInv
  <1>4. c.mark = db.item[n][c.end] /\ c.mark # NotFound /\ Len(c.items) = c.done
    BY <1>1, <1>2 DEF StagedPop, CallCounts, ItemsKnown
  <1>5. c.mark \in Int /\ qsize(db, n) # 0
    <2> HIDE DEF c
    <2> QED
      BY <1>3, <1>4, MarkOf, ContentsOf
  <1>6. item = Atomic!Peeked(q, c.end) /\ item \in Items
    <2> HIDE DEF c, n
    <2>1. item = IF c.end = QFRONT_SEQ THEN Head(q) ELSE q[Len(q)]
      BY <1>3, <1>4, <1>5, PopContents
    <2>2. q \in Seq(Items) /\ q # <<>>
      BY <1>3, <1>4, <1>5, PopContents, ContentsOf
    <2>3. item \in Items
      BY <2>1, <2>2, HeadTailProperties, ElementOfSeq, LenProperties
    <2> QED
      BY <2>1, <2>3 DEF Atomic!Peeked
  <1>7. writer' = [writer EXCEPT ![w] =
           [[c EXCEPT !.items = more, !.val = 1] EXCEPT !.pc = "size"]]
    BY <1>6, ValueAssumption DEF PopItem, Return, Goto
  <1> DEFINE c2 == [[c EXCEPT !.items = more, !.val = 1] EXCEPT !.pc = "size"]
  <1>8. q = After(c.items, c.done)
    BY <1>1, <1>2 DEF PrefixOf, Committed
  <1>9. \A i \in 1..Len(c.items) : c.items[i] = Atomic!Peeked(After(c.items, i - 1), c.end)
    BY <1>2 DEF PrefixOf
  <1> HIDE DEF c
  <1>10. /\ more \in Seq(Items) /\ Len(more) = c.done + 1 /\ more[c.done + 1] = item
         /\ \A i \in 1..c.done : more[i] = c.items[i]
    <2> HIDE DEF item
    <2> QED
      BY <1>3, <1>4, <1>6, AppendProperties
  <1> HIDE DEF more
  <1>11. /\ c2.op = c.op /\ c2.name = n /\ c2.end = c.end /\ c2.before = c.before
         /\ c2.done = c.done /\ c2.items = more /\ c2.pc = "size"
    BY <1>2 DEF Calls
  <1> HIDE DEF c2
  <1>12. q = After(more, c.done)
    BY <1>3, <1>8, AfterPops
  <1>13. ASSUME NEW i \in 1..Len(more)
         PROVE  more[i] = Atomic!Peeked(After(more, i - 1), c.end)
    <2>1. i - 1 \in Nat /\ i \in 1..c.done+1
      BY <1>3, <1>10
    <2>2. CASE i = c.done + 1
      <3>1. i - 1 = c.done
        BY <1>3, <2>2
      <3> QED
        BY <1>6, <1>10, <1>12, <2>2, <3>1
    <2>3. CASE i # c.done + 1
      <3>1. i \in 1..c.done /\ i \in 1..Len(c.items)
        BY <1>3, <1>4, <2>1, <2>3
      <3>2. After(more, i - 1) = After(c.items, i - 1)
        BY <2>1, AfterPops
      <3> QED
        BY <1>9, <1>10, <3>1, <3>2
    <2> QED
      BY <2>2, <2>3
  <1>14. PrefixOf(c2, q)
    <2>1. Committed(c2) = c.done
      BY <1>11 DEF Committed
    <2> HIDE DEF q
    <2> QED
      BY <1>2, <1>11, <1>12, <1>13, <2>1 DEF PrefixOf
  <1>15. writer' = [writer EXCEPT ![w] = c2]
    BY <1>7 DEF c2
  <1> QED
    BY <1>1, <1>11, <1>14, <1>15, OneWriterPrefix

(* A commit adds one item to the prefix.                                    *)
LEMMA CommitPrefix ==
  ASSUME SingleWriter, ServiceInv, PrefixInv, NEW w \in Writers, Commit(w)
  PROVE  PrefixInv'
  <1> DEFINE c == writer[w]
             n == c.name
             e == c.end
             mark == db.item[n][e]
             q == Contents(db, n)
             q2 == Contents(Applied(batch, db), n)
             c2 == WithVal(c, c.val, "unlock")
  <1>1. /\ c.pc = "commit" /\ db' = Applied(batch, db)
        /\ writer' = [writer EXCEPT ![w] = c2]
    BY DEF Commit, Return, Goto, WithVal
  <1>2. /\ c \in Calls /\ c # Idle /\ n \in Names /\ e \in Ends
        /\ c.op = "push" =>
              /\ PushedItem(c) \in Items
              /\ ~SeqOutOfRange(PushSeq(mark, e))
              /\ batch = PushBatch(db, EmptyBatch, n, e, mark, PushedItem(c))
              /\ c.val = qsize(db, n) + 1
        /\ c.op = "pop" =>
              /\ mark \in Int /\ qsize(db, n) # 0
              /\ batch = PopBatch(db, EmptyBatch, n, e, mark)
              /\ c.val = 1
    BY <1>1, CommitFinds
  <1>3. PrefixOf(c, q)
    BY <1>2 DEF PrefixInv
  <1>4. db \in Databases /\ WellFormed(db)
    BY DEF ServiceInv
  <1> HIDE DEF c
  <1>5. /\ c2.pc = "unlock" /\ c2.op = c.op /\ c2.name = n /\ c2.end = e
        /\ c2.items = c.items /\ c2.done = c.done /\ c2.val = c.val /\ c2.before = c.before
    BY <1>2, SetValFields
  <1>6. c.op \in {"push", "pop"} /\ c.done \in Nat
    BY <1>2 DEF Calls
  <1> HIDE DEF c2
  <1>7. q = AfterItems(c.op, c.before, e, c.items, c.done)
    BY <1>1, <1>3 DEF PrefixOf, Committed
  <1>8. qsize(db, n) \in Nat
    BY <1>2, <1>4, QsizeType
  <1>9. /\ q2 = OneItem(c.op, q, e, c.items, c.done + 1)
        /\ c.op = "push" => c.val = Len(q2)
        /\ Succeeded(c2)
    <2>1. CASE c.op = "push"
      <3>1. q2 = Atomic!Pushed(q, e, PushedItem(c))
        BY <1>2, <1>4, <2>1, PushContents DEF Atomic!Pushed
      <3>2. q \in Seq(Items) /\ Len(q) = qsize(db, n)
        BY <1>2, <1>4, ContentsOf
      <3> DEFINE item == PushedItem(c)
      <3>3. Len(q2) = Len(q) + 1
        <4>1. item \in Items /\ q2 = IF e = QFRONT_SEQ THEN <<item>> \o q ELSE Append(q, item)
          BY <1>2, <2>1, <3>1 DEF Atomic!Pushed
        <4> HIDE DEF item, q2, q
        <4>2. Len(Append(q, item)) = Len(q) + 1
          BY <3>2, <4>1, AppendProperties
        <4>3. <<item>> \in Seq(Items) /\ Len(<<item>>) = 1
          BY <4>1
        <4>4. Len(<<item>> \o q) = 1 + Len(q)
          BY <3>2, <4>3, ConcatProperties
        <4> QED
          BY <1>8, <3>2, <4>1, <4>2, <4>4
      <3>4. Succeeded(c2)
        BY <1>2, <1>5, <1>8, <2>1 DEF Succeeded
      <3> HIDE DEF q, q2
      <3> QED
        BY <1>2, <2>1, <3>1, <3>2, <3>3, <3>4 DEF OneItem, PushedItem
    <2>2. CASE c.op = "pop"
      <3>1. q2 = Atomic!Popped(q, e)
        BY <1>2, <1>4, <2>2, PopContents DEF Atomic!Popped
      <3>2. Succeeded(c2)
        BY <1>2, <1>5, <2>2 DEF Succeeded
      <3> HIDE DEF q, q2
      <3> QED
        BY <2>2, <3>1, <3>2 DEF OneItem
    <2> QED
      BY <1>6, <2>1, <2>2
  <1>10. q2 = AfterItems(c.op, c.before, e, c.items, c.done + 1)
    BY <1>6, <1>7, <1>9, AfterNext
  <1>11. Committed(c2) = c.done + 1
    BY <1>5, <1>9 DEF Committed
  <1>12. PrefixOf(c2, q2)
    <2> HIDE DEF q2, q
    <2>1. c.op = "pop" => c2.val # 0
      BY <1>2, <1>5
    <2> QED
      BY <1>3, <1>5, <1>9, <1>10, <1>11, <2>1 DEF PrefixOf
  <1> QED
    BY <1>1, <1>5, <1>12, OneWriterPrefix

(* A failing call forgets the item it was about to pop.                     *)
LEMMA FailPrefix ==
  ASSUME SingleWriter, ServiceInv, PrefixInv, NEW w \in Writers, Fail(w)
  PROVE  PrefixInv'
  <1> DEFINE c == writer[w]
             n == c.name
             q == Contents(db, n)
             kept == IF c.op = "push" THEN c.items ELSE SubSeq(c.items, 1, c.done)
             c2 == [c EXCEPT !.pc = "unlock", !.val = -1, !.items = kept]
             After(items, i) == AfterItems("pop", c.before, c.end, items, i)
  <1>1. c.pc \in {"mark", "item", "size", "commit"} /\ db' = db
    BY DEF Fail
  <1>2. c \in Calls /\ c # Idle /\ CallCounts(c) /\ PrefixOf(c, q)
    BY <1>1, CallFacts DEF PrefixInv
  <1>3. writer' = [writer EXCEPT ![w] = c2]
    <2>1. [c EXCEPT !.pc = "unlock", !.val = -1,
                    !.items = IF c.op = "push" THEN @ ELSE SubSeq(@, 1, c.done)] = c2
      BY <1>2 DEF Calls
    <2> HIDE DEF c2
    <2> QED
      BY <2>1 DEF Fail
  <1> HIDE DEF c
  <1>4. c.items \in Seq(Items) /\ c.done \in Nat /\ c.op \in {"push", "pop"}
    BY <1>2 DEF Calls
  <1>5. /\ c.op = "push" => kept = c.items
        /\ c.op = "pop" => /\ Len(kept) = c.done /\ c.done <= Len(c.items)
                           /\ \A i \in 1..c.done : kept[i] = c.items[i]
    <2>1. CASE c.op = "push"
      BY <2>1
    <2>2. CASE c.op = "pop"
      <3>1. c.done <= Len(c.items)
        BY <1>2, <1>4, <2>2 DEF CallCounts, ItemsKnown
      <3>2. \A i \in 1..c.done : c.items[i] \in Items
        BY <1>4, <3>1, ElementOfSeq
      <3>3. /\ Len(SubSeq(c.items, 1, c.done)) = IF 1 <= c.done THEN c.done - 1 + 1 ELSE 0
            /\ \A i \in 1 .. c.done - 1 + 1 : SubSeq(c.items, 1, c.done)[i] = c.items[1 + i - 1]
        BY <1>4, <3>2, SubSeqProperties
      <3>4. kept = SubSeq(c.items, 1, c.done)
        BY <2>2
      <3> HIDE DEF kept
      <3> QED
        BY <1>4, <2>2, <3>1, <3>3, <3>4
    <2> QED
      BY <1>4, <2>1, <2>2
  <1> HIDE DEF kept
  <1>6. /\ c2.op = c.op /\ c2.name = n /\ c2.end = c.end /\ c2.before = c.before
        /\ c2.done = c.done /\ c2.items = kept /\ c2.pc = "unlock" /\ c2.val = -1
    BY <1>2 DEF Calls
  <1> HIDE DEF c2
  <1>7. q = AfterItems(c.op, c.before, c.end, c.items, c.done)
    BY <1>1, <1>2 DEF PrefixOf, Committed
  <1>8. q = AfterItems(c.op, c.before, c.end, kept, c.done)
    BY <1>4, <1>5, <1>7, AfterPops
  <1>9. ASSUME c.op = "pop", NEW i \in 1..Len(kept)
        PROVE  kept[i] = Atomic!Peeked(After(kept, i - 1), c.end)
    <2>1. i \in 1..c.done /\ i \in 1..Len(c.items) /\ i - 1 \in Nat
      BY <1>4, <1>5, <1>9
    <2>2. c.items[i] = Atomic!Peeked(After(c.items, i - 1), c.end)
      BY <1>2, <1>9, <2>1 DEF PrefixOf
    <2>3. After(kept, i - 1) = After(c.items, i - 1)
      BY <2>1, AfterPops
    <2> QED
      BY <1>5, <1>9, <2>1, <2>2, <2>3
  <1>10. Committed(c2) = c.done
    BY <1>4, <1>6 DEF Committed, Succeeded
  <1>11. PrefixOf(c2, q)
    <2> HIDE DEF q
    <2> QED
      BY <1>6, <1>8, <1>9, <1>10 DEF PrefixOf
  <1> QED
    BY <1>1, <1>3, <1>6, <1>11, OneWriterPrefix

LEMMA UnlockPrefix ==
  ASSUME SingleWriter, ServiceInv, PrefixInv, NEW w \in Writers, Unlock(w)
  PROVE  PrefixInv'
  <1> DEFINE c == writer[w]
             done == IF Succeeded(c) THEN c.done + 1 ELSE c.done
             pc == IF Succeeded(c) /\ done < c.count THEN "begin" ELSE "reply"
             c2 == [[c EXCEPT !.done = done] EXCEPT !.pc = pc]
  <1>1. c.pc = "unlock" /\ db' = db /\ writer' = [writer EXCEPT ![w] = c2]
    BY DEF Unlock, Goto
  <1>2. c \in Calls /\ c # Idle /\ PrefixOf(c, Contents(db, c.name))
    BY <1>1, CallFacts DEF PrefixInv
  <1>3. Committed(c) = done /\ pc \in {"begin", "reply"}
    BY <1>1 DEF Committed
  <1> HIDE DEF c, done, pc
  <1>4. /\ c2.op = c.op /\ c2.name = c.name /\ c2.end = c.end /\ c2.before = c.before
        /\ c2.done = done /\ c2.items = c.items /\ c2.pc = pc /\ c2.val = c.val
    BY <1>2 DEF Calls
  <1> HIDE DEF c2
  <1>5. Committed(c2) = Committed(c)
    BY <1>3, <1>4 DEF Committed
  <1>6. PrefixOf(c2, Contents(db, c.name))
    BY <1>1, <1>2, <1>4, <1>5, KeepsPrefix
  <1> QED
    BY <1>1, <1>4, <1>6, OneWriterPrefix

LEMMA PrefixNextInv ==
  ASSUME SingleWriter
  PROVE  ServiceInv /\ PrefixInv /\ [Next]_vars => PrefixInv'
  <1> SUFFICES ASSUME ServiceInv, PrefixInv, [Next]_vars PROVE PrefixInv'
    OBVIOUS
  <1>1. CASE UNCHANGED <<db, writer>>
    BY <1>1 DEF PrefixInv
  <1>2. ASSUME NEW w \in Writers, WriterStep(w) PROVE PrefixInv'
    <2>1. CASE Reply(w)
      BY <2>1, OneWriterPrefix DEF Reply
    <2> QED
      BY <1>2, <2>1, StartPrefix, StagingPrefix, PopMarkPrefix, PopItemPrefix, CommitPrefix,
         FailPrefix, UnlockPrefix
      DEF WriterStep, Transact
  <1>3. ASSUME NEW r \in Readers, ReaderStep(r) PROVE PrefixInv'
    BY <1>1, <1>3 DEF ReaderStep, PeekMark, PeekItem, PeekError, PeekDone, PeekReply
  <1>4. CASE UNCHANGED vars
    BY <1>1, <1>4 DEF vars
  <1> QED
    BY <1>2, <1>3, <1>4 DEF Next

LEMMA PrefixesAreRight == ServiceInv /\ PrefixInv => CallIsAPrefix
  <1> SUFFICES ASSUME ServiceInv, PrefixInv, NEW w \in Writers, writer[w] # Idle
               PROVE  LET c == writer[w]
                      IN  /\ Contents(db, c.name) = AfterItems(c.op, c.before, c.end, c.items, Committed(c))
                          /\ c.pc = "reply" =>
                                /\ c.op = "push" => (c.done = c.count <=> c.val # -1)
                                /\ c.op = "push" /\ c.val # -1 => c.val = Len(Contents(db, c.name))
                                /\ c.op = "pop" =>
                                      /\ Len(c.items) = c.done
                                      /\ \A i \in 1..c.done :
                                            c.items[i] = Atomic!Peeked(
                                                AfterItems("pop", c.before, c.end, c.items, i - 1), c.end)
                                      /\ c.val = 0 => Contents(db, c.name) = <<>>
    BY DEF CallIsAPrefix
  <1> DEFINE c == writer[w]
             q == Contents(db, c.name)
  <1>1. CallCounts(c) /\ PrefixOf(c, q)
    BY DEF ServiceInv, CallInv, PrefixInv
  <1>2. c.pc = "reply" /\ c.op = "pop" => Len(c.items) = c.done
    BY <1>1 DEF CallCounts, ItemsKnown
  <1>3. c.pc = "reply" /\ c.op = "push" => (c.done = c.count <=> c.val # -1)
    BY <1>1 DEF CallCounts
  <1> HIDE DEF q, c
  <1>4. /\ q = AfterItems(c.op, c.before, c.end, c.items, Committed(c))
        /\ c.pc = "reply" =>
              /\ c.op = "push" /\ c.val # -1 => c.val = Len(q)
              /\ c.op = "pop" => 
                    /\ \A i \in 1..Len(c.items) :
                          c.items[i] = Atomic!Peeked(
                              AfterItems("pop", c.before, c.end, c.items, i - 1), c.end)
                    /\ c.val = 0 => q = <<>>
    BY <1>1 DEF PrefixOf
  <1> QED
    BY <1>2, <1>3, <1>4 DEF q, c

(* With the one writer thread of the server the items of a qpush end up     *)
(* side by side and in order, and a qpop replies exactly what it removed:   *)
(* at every moment the queue is what it was before the call with a prefix   *)
(* of the call done, however many readers look on and whichever of the      *)
(* reads and writes fail.                                                   *)
THEOREM CallsArePrefixes ==
  ASSUME SingleWriter
  PROVE  Spec => []CallIsAPrefix
  <1>1. Init => PrefixInv
    BY DEF Init, PrefixInv
  <1>2. ServiceInv /\ PrefixInv /\ [Next]_vars => PrefixInv'
    BY PrefixNextInv
  <1> QED
    BY <1>1, <1>2, PrefixesAreRight, ServiceInvariant, PTL DEF Spec
=============================================================================
