----------------------------- MODULE QueueStore -----------------------------
(***************************************************************************)
(* The queue operations of the database (src/data/t_queue.cpp) over        *)
(* leveldb, one action per operation: GEMINIDBImpl::_qpush and _qpop hold  *)
(* the Transaction mutex (src/data/binlog.h) from their first read to      *)
(* their commit, so that nothing else writes in between; QueueService      *)
(* models them step by step and shows that this grain is right.            *)
(*                                                                         *)
(* Every read of an operation goes to the database, every write to the     *)
(* batch of the BinlogQueue, which commit hands to leveldb in one Write.   *)
(* The batch is a member of the BinlogQueue: what an operation that        *)
(* returned early has staged stays in it until the next begin.             *)
(*                                                                         *)
(* leveldb is external: a Get or a Write may fail without effect; a Write  *)
(* is atomic; it is not synced (WriteOptions default), so a machine crash  *)
(* may fall back to the state of an earlier write-back.                    *)
(***************************************************************************)
EXTENDS QueueKeys, Sequences

VARIABLE disk      \* the database state a machine crash falls back to

storeVars == <<db, batch, disk, ret>>

StoreInit == /\ db = EmptyDb
             /\ batch = EmptyBatch
             /\ disk = EmptyDb
             /\ ret = NoResult

(* Mutant: begin does not clear what the previous transaction left.         *)
begin_keeps_batch == batch

(* The batch a transaction starts from: BinlogQueue::begin.                 *)
begin == EmptyBatch

(* The value qget_uint64 reads under the end e; anything but a position or  *)
(* NotFound has the wrong length and makes it return -1.                    *)
Mark(n, e) == db.item[n][e]
Readable(mark) == mark \in Int \cup {NotFound}

(* An operation that returns -1 without a commit leaves b staged.           *)
Refused(op, n, e, item, b) ==
    /\ batch' = b
    /\ ret' = Result(op, n, e, item, -1)
    /\ UNCHANGED <<db, disk>>

CommitBatch(b) == /\ batch' = b
                  /\ db' = Applied(b, db)
                  /\ UNCHANGED disk

-----------------------------------------------------------------------------
QPush(n, e, item) ==
    /\ Readable(Mark(n, e))
    /\ ~SeqOutOfRange(PushSeq(Mark(n, e), e))
    /\ CommitBatch(PushBatch(db, begin, n, e, Mark(n, e), item))
    /\ ret' = Result("push", n, e, item, qsize(db, n) + 1)

(* "queue is full": the end positions are staged, nothing is committed.     *)
QPushFull(n, e, item) ==
    /\ Readable(Mark(n, e))
    /\ SeqOutOfRange(PushSeq(Mark(n, e), e))
    /\ Refused("push", n, e, item, PushMarks(begin, n, e, Mark(n, e)))

(* leveldb fails in the read of the end (or the end is unreadable), in the  *)
(* read of the size, or in the write of the complete batch.                 *)
QPushError(n, e, item) ==
    \/ Refused("push", n, e, item, begin)
    \/ /\ Readable(Mark(n, e))
       /\ ~SeqOutOfRange(PushSeq(Mark(n, e), e))
       /\ \/ Refused("push", n, e, item, PushItem(begin, n, e, Mark(n, e), item))
          \/ Refused("push", n, e, item, PushBatch(db, begin, n, e, Mark(n, e), item))

QPop(n, e) ==
    LET mark == Mark(n, e)
    IN  /\ mark \in Int
        /\ db.item[n][mark] # NotFound
        /\ qsize(db, n) # 0
        /\ CommitBatch(PopBatch(db, begin, n, e, mark))
        /\ ret' = Result("pop", n, e, db.item[n][mark], 1)

(* No position key, or no item at the position.                             *)
QPopEmpty(n, e) ==
    /\ \/ Mark(n, e) = NotFound
       \/ /\ Mark(n, e) \in Int
          /\ db.item[n][Mark(n, e)] = NotFound
    /\ batch' = begin
    /\ ret' = Result("pop", n, e, NotFound, 0)
    /\ UNCHANGED <<db, disk>>

(* A failing Get (position, item or size), an unreadable position, a size   *)
(* of -1 after the decrement, or a failing Write.                           *)
QPopError(n, e) ==
    LET mark == Mark(n, e)
    IN  \/ Refused("pop", n, e, NotFound, begin)
        \/ /\ mark \in Int
           /\ db.item[n][mark] # NotFound
           /\ \/ Refused("pop", n, e, NotFound, qdel_one(begin, n, mark))
              \/ Refused("pop", n, e, NotFound, PopBatch(db, begin, n, e, mark))

(* The operating system writes leveldb's log back.                          *)
Sync == /\ disk' = db
        /\ UNCHANGED <<db, batch, ret>>

(* The server starts again, after a crash of the process (leveldb's log is  *)
(* with the operating system and nothing is lost) or of the machine.        *)
Restart == /\ db' \in {db, disk}
           /\ disk' = db'
           /\ batch' = EmptyBatch
           /\ ret' = NoResult

Push(n, e, item) == \/ QPush(n, e, item)
                    \/ QPushFull(n, e, item)
                    \/ QPushError(n, e, item)

Pop(n, e) == QPop(n, e) \/ QPopEmpty(n, e) \/ QPopError(n, e)

StoreNext == \/ \E n \in Names, e \in Ends :
                   \/ \E item \in Items : Push(n, e, item)
                   \/ Pop(n, e)
             \/ Sync
             \/ Restart

StoreSpec == StoreInit /\ [][StoreNext]_storeVars

-----------------------------------------------------------------------------
(* Every key holds a value of its kind; in particular a position key never  *)
(* holds an item, no stored size is zero, and no position leaves the range  *)
(* of the sequence numbers.                                                 *)
TypeOK == /\ db \in Databases
          /\ disk \in Databases
          /\ batch \in Batches

(* A stored queue is always contiguous: its items sit at exactly the        *)
(* positions between its two ends, its size key counts them, and an empty   *)
(* queue has no key at all - now, and in whatever state a crash falls back  *)
(* to, whichever operations failed half-way before.                         *)
QueuesWellFormed == WellFormed(db) /\ WellFormed(disk)

(* The store implements the deques of DequeSpec: every operation takes      *)
(* effect on the right end of the right queue, returns the right item and   *)
(* size, and an operation that reports an error has no effect.              *)
Deque == INSTANCE DequeSpec WITH
            FrontEnd <- QFRONT_SEQ,
            BackEnd <- QBACK_SEQ,
            queue <- [n \in Names |-> Contents(db, n)],
            saved <- [n \in Names |-> Contents(disk, n)]

ImplementsDeque == Deque!Spec
=============================================================================
