----------------------------- MODULE QueueKeys -----------------------------
(***************************************************************************)
(* How a queue is laid out in leveldb (src/data/t_queue.h) and the pure    *)
(* part of the queue operations (src/data/t_queue.cpp): which keys a push  *)
(* or a pop stages into the write batch of the BinlogQueue.                *)
(*                                                                         *)
(* A queue named n owns the key 'Q'+n, holding its size, and one key       *)
(* 'q'+n+seq per item.  The positions of the two ends are kept in the SAME *)
(* key space, under the reserved sequence numbers QFRONT_SEQ and           *)
(* QBACK_SEQ; only QITEM_MIN_SEQ keeps items away from them.               *)
(*                                                                         *)
(* A database state is a record [item, size] of these two key spaces.  A   *)
(* write batch has the same shape: NoOp where nothing is staged, NotFound  *)
(* where a Delete is staged, the value where a Put is staged (a later      *)
(* operation on a key replaces an earlier one, as replaying the batch      *)
(* in order does).                                                         *)
(*                                                                         *)
(* The variables are those that QueueStore and QueueService share.         *)
(***************************************************************************)
EXTENDS Integers

CONSTANTS Names,           \* the queue names
          Items,           \* the item values
          NotFound,        \* leveldb's answer for an absent key
          NoOp,            \* a key the batch does not touch
          QITEM_MIN_SEQ,   \* items live strictly above this position ...
          QITEM_MAX_SEQ    \* ... and strictly below this one

VARIABLES db,      \* what leveldb answers to a Get
          batch,   \* BinlogQueue::batch
          ret      \* history: the last operation and what it returned

QFRONT_SEQ == 2
QBACK_SEQ  == 3
QITEM_SEQ_INIT == QITEM_MAX_SEQ \div 2

(* 10000 and 2^63-1 in the code: the middle lies strictly between them.     *)
ASSUME SeqAssumption ==
    /\ QITEM_MIN_SEQ \in Nat
    /\ QITEM_MAX_SEQ \in Nat
    /\ QBACK_SEQ <= QITEM_MIN_SEQ
    /\ QITEM_MIN_SEQ < QITEM_SEQ_INIT
    /\ QITEM_SEQ_INIT < QITEM_MAX_SEQ
    /\ QITEM_SEQ_INIT \in Nat

ASSUME ValueAssumption ==
    /\ NotFound \notin Items
    /\ NotFound \notin Int
    /\ NoOp \notin Items \cup Int \cup {NotFound}
    /\ Items \cap Int = {}

Ends == {QFRONT_SEQ, QBACK_SEQ}
Seqs == 0..QITEM_MAX_SEQ

ItemValues == Items \cup Seqs \cup {NotFound}
SizeValues == (Nat \ {0}) \cup {NotFound}

Databases == [item : [Names -> [Seqs -> ItemValues]], size : [Names -> SizeValues]]
Batches == [item : [Names -> [Seqs -> ItemValues \cup {NoOp}]],
            size : [Names -> SizeValues \cup {NoOp}]]

EmptyDb == [item |-> [n \in Names |-> [s \in Seqs |-> NotFound]],
            size |-> [n \in Names |-> NotFound]]

(* BinlogQueue::begin clears the batch the previous transaction left.       *)
EmptyBatch == [item |-> [n \in Names |-> [s \in Seqs |-> NoOp]],
               size |-> [n \in Names |-> NoOp]]

-----------------------------------------------------------------------------
(* Staging: binlogs->Put and binlogs->Delete.                               *)

qset_one(b, n, s, v) == [b EXCEPT !.item[n][s] = v]
qdel_one(b, n, s)    == [b EXCEPT !.item[n][s] = NotFound]

(* GEMINIDBImpl::qsize reads the database, never the batch.                 *)
qsize(d, n) == IF d.size[n] = NotFound THEN 0 ELSE d.size[n]

(* Mutants of incr_qsize: the key of an empty queue is kept with the value  *)
(* 0 ("size < 0"); the keys of the two ends are not deleted.                *)
incr_qsize_keeps_zero(d, b, n, incr) ==
    LET size == qsize(d, n) + incr
    IN  IF size < 0
        THEN qdel_one(qdel_one([b EXCEPT !.size[n] = NotFound], n, QFRONT_SEQ),
                      n, QBACK_SEQ)
        ELSE [b EXCEPT !.size[n] = size]

incr_qsize_keeps_ends(d, b, n, incr) ==
    LET size == qsize(d, n) + incr
    IN  [b EXCEPT !.size[n] = IF size <= 0 THEN NotFound ELSE size]

(* incr_qsize: a queue that becomes empty loses its size key and both       *)
(* position keys, so that the next push starts in the middle again.         *)
incr_qsize(d, b, n, incr) ==
    LET size == qsize(d, n) + incr
    IN  IF size <= 0
        THEN qdel_one(qdel_one([b EXCEPT !.size[n] = NotFound], n, QFRONT_SEQ),
                      n, QBACK_SEQ)
        ELSE [b EXCEPT !.size[n] = size]

(* db->Write: the whole batch takes effect at once.                         *)
Applied(b, d) ==
    [item |-> [n \in Names |-> [s \in Seqs |->
                  IF b.item[n][s] = NoOp THEN d.item[n][s] ELSE b.item[n][s]]],
     size |-> [n \in Names |-> IF b.size[n] = NoOp THEN d.size[n] ELSE b.size[n]]]

-----------------------------------------------------------------------------
(* _qpush, given the value mark it read under the key of the end e.         *)

PushSeq(mark, e) ==
    IF mark = NotFound THEN QITEM_SEQ_INIT
    ELSE IF e = QFRONT_SEQ THEN mark - 1 ELSE mark + 1

(* The end positions are staged before the range is checked.                *)
PushMarks(b, n, e, mark) ==
    IF mark = NotFound
    THEN qset_one(qset_one(b, n, QFRONT_SEQ, QITEM_SEQ_INIT), n, QBACK_SEQ, QITEM_SEQ_INIT)
    ELSE qset_one(b, n, e, PushSeq(mark, e))

SeqOutOfRange(s) == s <= QITEM_MIN_SEQ \/ s >= QITEM_MAX_SEQ

PushItem(b, n, e, mark, item) ==
    qset_one(PushMarks(b, n, e, mark), n, PushSeq(mark, e), item)

PushBatch(d, b, n, e, mark, item) ==
    incr_qsize(d, PushItem(b, n, e, mark, item), n, 1)

(* _qpop, given the position mark of the end e: the item goes, the size     *)
(* shrinks, and the end moves inwards unless the queue became empty.        *)
PopSeq(mark, e) == IF e = QFRONT_SEQ THEN mark + 1 ELSE mark - 1

(* Mutant: the end stays where it is when one item is left ("size > 1").    *)
PopBatch_keeps_end(d, b, n, e, mark) ==
    LET shrunk == incr_qsize(d, qdel_one(b, n, mark), n, -1)
    IN  IF qsize(d, n) - 1 > 1
        THEN qset_one(shrunk, n, e, PopSeq(mark, e))
        ELSE shrunk

PopBatch(d, b, n, e, mark) ==
    LET shrunk == incr_qsize(d, qdel_one(b, n, mark), n, -1)
    IN  IF qsize(d, n) - 1 > 0
        THEN qset_one(shrunk, n, e, PopSeq(mark, e))
        ELSE shrunk

(* What an operation returns to its command handler.                        *)
Result(op, n, e, item, val) ==
    [op |-> op, name |-> n, end |-> e, item |-> item, val |-> val]

NoResult == [op |-> "none"]

-----------------------------------------------------------------------------
(* The shape of a stored queue: no keys at all, or items at exactly the     *)
(* positions between the two ends, and a size key that counts them.         *)

EmptyQueue(d, n) ==
    /\ d.size[n] = NotFound
    /\ \A s \in Seqs : d.item[n][s] = NotFound

ContiguousQueue(d, n) ==
    LET front == d.item[n][QFRONT_SEQ]
        back  == d.item[n][QBACK_SEQ]
    IN  /\ front \in QITEM_MIN_SEQ+1 .. QITEM_MAX_SEQ-1
        /\ back \in front .. QITEM_MAX_SEQ-1
        /\ d.size[n] = back - front + 1
        /\ \A s \in Seqs \ Ends :
              IF s \in front..back THEN d.item[n][s] \in Items
                                   ELSE d.item[n][s] = NotFound

WellFormed(d) == \A n \in Names : EmptyQueue(d, n) \/ ContiguousQueue(d, n)

(* The items of a stored queue, front first.                                *)
Contents(d, n) ==
    [i \in 1..qsize(d, n) |-> d.item[n][d.item[n][QFRONT_SEQ] + i - 1]]
=============================================================================
