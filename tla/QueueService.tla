---------------------------- MODULE QueueService ----------------------------
(***************************************************************************)
(* The queue commands as the threads of the server run them: the handlers  *)
(* of src/proc_queue.cpp on the writer and reader threads, and under them  *)
(* GEMINIDBImpl::_qpush, _qpop, qfront and qback (src/data/t_queue.cpp),   *)
(* one step per lock, Get, Write and unlock.                               *)
(*                                                                         *)
(* A qpush or qpop handler runs one Transaction per item, so that other    *)
(* threads see the queue between two items; the Transaction holds the      *)
(* mutex of the BinlogQueue and stages its writes in the batch all         *)
(* transactions share.  qfront and qback read twice without any lock.      *)
(*                                                                         *)
(* The component is shown to implement DequeSpec: the commit, or the read  *)
(* that finds the queue empty, is where an operation takes effect.         *)
(***************************************************************************)
EXTENDS QueueKeys, Sequences

CONSTANTS Writers,    \* the threads of the writer pool (WRITER_THREADS = 1)
          Readers,    \* the threads of the reader pool
          Nobody,     \* no thread
          MaxItems    \* bound: items of a qpush request, items asked of a qpop

ASSUME NobodyAssumption == Nobody \notin Writers
ASSUME MaxItemsAssumption == MaxItems \in Nat

VARIABLES mutex,   \* BinlogQueue::mutex: the thread holding it, or Nobody
          writer,  \* the call each writer thread runs
          reader   \* the call each reader thread runs

vars == <<db, batch, mutex, writer, reader, ret>>

Idle == [pc |-> "idle"]

Init == /\ db = EmptyDb
        /\ batch = EmptyBatch
        /\ mutex = Nobody
        /\ writer = [w \in Writers |-> Idle]
        /\ reader = [r \in Readers |-> Idle]
        /\ ret = NoResult

-----------------------------------------------------------------------------
(* The handlers.  A call keeps the queue and the end it is about, the items *)
(* to push or popped so far, how many transactions it asks for and how many *)
(* succeeded, and the return value of the last one; before is a history     *)
(* field, the queue when the call started.                                  *)

Call(op, n, e, items, count) ==
    [pc |-> "begin", op |-> op, name |-> n, end |-> e, items |-> items,
     count |-> count, done |-> 0, mark |-> NotFound, val |-> 0,
     before |-> Contents(db, n)]

StartCall(w, c) ==
    /\ writer[w] = Idle
    /\ writer' = [writer EXCEPT ![w] = c]
    /\ UNCHANGED <<db, batch, mutex, reader, ret>>

(* CHECK_NUM_PARAMS(3): at least one item.                                  *)
QpushCall(w) ==
    \E n \in Names, e \in Ends, k \in 1..MaxItems : \E items \in [1..k -> Items] :
       StartCall(w, Call("push", n, e, items, k))

(* The count of a qpop defaults to 1.                                       *)
QpopCall(w) ==
    \E n \in Names, e \in Ends, k \in 1..MaxItems :
       StartCall(w, Call("pop", n, e, <<>>, k))

(* A thread moves on to pc, changing the named fields of its call.          *)
Goto(w, pc, c) == writer' = [writer EXCEPT ![w] = [c EXCEPT !.pc = pc]]

(* A transaction is over with the return value v: its operation has taken   *)
(* effect, or been refused, in the step that says so.                       *)
Return(w, v, item) ==
    LET c == writer[w]
    IN  /\ Goto(w, "unlock", [c EXCEPT !.val = v])
        /\ ret' = Result(c.op, c.name, c.end, item, v)

(* Mutant: the loop does not advance, and pushes its first item every time. *)
PushedItem_first(c) == c.items[1]

PushedItem(c) == c.items[c.done + 1]

-----------------------------------------------------------------------------
(* Mutex::lock and unlock, as Transaction calls them.                       *)
Lock(w) == mutex = Nobody /\ mutex' = w
Release == mutex' = Nobody

(* Mutant of Begin: the mutex is not waited for.                            *)
Begin_unlocked(w) ==
    /\ writer[w].pc = "begin"
    /\ mutex' = w
    /\ batch' = EmptyBatch
    /\ Goto(w, "mark", writer[w])
    /\ UNCHANGED <<db, reader, ret>>

(* Transaction::Transaction locks the mutex and clears the batch.           *)
Begin(w) ==
    /\ writer[w].pc = "begin"
    /\ Lock(w)
    /\ batch' = EmptyBatch
    /\ Goto(w, "mark", writer[w])
    /\ UNCHANGED <<db, reader, ret>>

(* _qpush: read the end, stage the position keys and the item.              *)
PushMark(w) ==
    LET c == writer[w]
        mark == db.item[c.name][c.end]
    IN  /\ c.pc = "mark" /\ c.op = "push"
        /\ ~SeqOutOfRange(PushSeq(mark, c.end))
        /\ batch' = PushItem(batch, c.name, c.end, mark, PushedItem(c))
        /\ Goto(w, "size", c)
        /\ UNCHANGED <<db, mutex, reader, ret>>

(* "queue is full": returns with the position keys staged.                  *)
PushFull(w) ==
    LET c == writer[w]
        mark == db.item[c.name][c.end]
    IN  /\ c.pc = "mark" /\ c.op = "push"
        /\ SeqOutOfRange(PushSeq(mark, c.end))
        /\ batch' = PushMarks(batch, c.name, c.end, mark)
        /\ Return(w, -1, PushedItem(c))
        /\ UNCHANGED <<db, mutex, reader>>

PushSize(w) ==
    LET c == writer[w]
    IN  /\ c.pc = "size" /\ c.op = "push"
        /\ batch' = incr_qsize(db, batch, c.name, 1)
        /\ Goto(w, "commit", [c EXCEPT !.val = qsize(db, c.name) + 1])
        /\ UNCHANGED <<db, mutex, reader, ret>>

(* _qpop: read the end; none means an empty queue.                          *)
PopMark(w) ==
    LET c == writer[w]
        mark == db.item[c.name][c.end]
    IN  /\ c.pc = "mark" /\ c.op = "pop"
        /\ \/ /\ mark = NotFound
              /\ Return(w, 0, NotFound)
           \/ /\ mark # NotFound
              /\ Goto(w, "item", [c EXCEPT !.mark = mark])
              /\ UNCHANGED ret
        /\ UNCHANGED <<db, batch, mutex, reader>>

(* ... read the item there and stage its deletion.                          *)
PopItem(w) ==
    LET c == writer[w]
        item == db.item[c.name][c.mark]
    IN  /\ c.pc = "item"
        /\ \/ /\ item = NotFound
              /\ Return(w, 0, NotFound)
              /\ UNCHANGED batch
           \/ /\ item # NotFound
              /\ batch' = qdel_one(batch, c.name, c.mark)
              /\ Goto(w, "size", [c EXCEPT !.items = Append(@, item), !.val = 1])
              /\ UNCHANGED ret
        /\ UNCHANGED <<db, mutex, reader>>

(* ... and move the end unless this was the last item.                      *)
PopSize(w) ==
    LET c == writer[w]
        size == qsize(db, c.name) - 1
        shrunk == incr_qsize(db, batch, c.name, -1)
    IN  /\ c.pc = "size" /\ c.op = "pop"
        /\ size # -1
        /\ batch' = IF size > 0
                    THEN qset_one(shrunk, c.name, c.end, PopSeq(c.mark, c.end))
                    ELSE shrunk
        /\ Goto(w, "commit", c)
        /\ UNCHANGED <<db, mutex, reader, ret>>

(* History: what the readers between their two Gets witness of a write.     *)
EndItem(d, n, e) == d.item[n][d.item[n][e]]
IsEmpty(d, n) == d.item[n][QFRONT_SEQ] = NotFound

Witness(c) ==
    LET after == db'
    IN  reader' = [r \in Readers |->
            IF reader[r].pc # "item" \/ reader[r].name # c.name THEN reader[r]
            ELSE [reader[r] EXCEPT
                    !.emptied = @ \/ IsEmpty(after, c.name),
                    !.popped = @ \/ c.op = "pop",
                    !.held = @ \cup IF IsEmpty(after, c.name) THEN {}
                                    ELSE {EndItem(after, c.name, reader[r].end)}]]

(* BinlogQueue::commit: db->Write takes the batch as it is.                 *)
Commit(w) ==
    LET c == writer[w]
    IN  /\ c.pc = "commit"
        /\ db' = Applied(batch, db)
        /\ Witness(c)
        /\ Return(w, c.val, IF c.op = "push" THEN PushedItem(c) ELSE c.items[Len(c.items)])
        /\ UNCHANGED <<batch, mutex>>

(* A Get or the Write fails.  The item a failing qpop had read stays in     *)
(* the string of the handler, which does not reply it.                      *)
Fail(w) ==
    LET c == writer[w]
    IN  /\ c.pc \in {"mark", "item", "size", "commit"}
        /\ writer' = [writer EXCEPT ![w] =
              [c EXCEPT !.pc = "unlock", !.val = -1,
                        !.items = IF c.op = "push" THEN @ ELSE SubSeq(@, 1, c.done)]]
        /\ ret' = Result(c.op, c.name, c.end,
                         IF c.op = "push" THEN PushedItem(c) ELSE NotFound, -1)
        /\ UNCHANGED <<db, batch, mutex, reader>>

(* Transaction::~Transaction, and the loop of the handler: a push stops at  *)
(* the first error, a pop at the first error or empty queue.                *)
Succeeded(c) == IF c.op = "push" THEN c.val # -1 ELSE c.val > 0

(* Mutant: an early return (an error, an empty queue) keeps the mutex.      *)
Unlock_keeps_mutex(w) ==
    LET c == writer[w]
        done == IF Succeeded(c) THEN c.done + 1 ELSE c.done
    IN  /\ c.pc = "unlock"
        /\ IF Succeeded(c) THEN Release ELSE UNCHANGED mutex
        /\ Goto(w, IF Succeeded(c) /\ done < c.count THEN "begin" ELSE "reply",
                [c EXCEPT !.done = done])
        /\ UNCHANGED <<db, batch, reader, ret>>

Unlock(w) ==
    LET c == writer[w]
        done == IF Succeeded(c) THEN c.done + 1 ELSE c.done
    IN  /\ c.pc = "unlock"
        /\ Release
        /\ Goto(w, IF Succeeded(c) /\ done < c.count THEN "begin" ELSE "reply",
                [c EXCEPT !.done = done])
        /\ UNCHANGED <<db, batch, reader, ret>>

Reply(w) ==
    /\ writer[w].pc = "reply"
    /\ writer' = [writer EXCEPT ![w] = Idle]
    /\ UNCHANGED <<db, batch, mutex, reader, ret>>

-----------------------------------------------------------------------------
(* qfront and qback: a Get of the end, then a Get of the item there.  The   *)
(* history of a call: the queue was empty at some moment of it (emptied),   *)
(* an item was popped during it (popped), the items that were at its end    *)
(* (held), and whether the answer is one of them (seen).                    *)
PeekMark(r) ==
    \E n \in Names, e \in Ends :
       LET mark == db.item[n][e]
       IN  /\ reader[r].pc = "idle"
           /\ reader' = [reader EXCEPT ![r] =
                 IF mark = NotFound
                 THEN [pc |-> "reply", status |-> 0, emptied |-> IsEmpty(db, n),
                       popped |-> FALSE, seen |-> FALSE]
                 ELSE [pc |-> "item", name |-> n, end |-> e, mark |-> mark,
                       emptied |-> IsEmpty(db, n), popped |-> FALSE,
                       held |-> {EndItem(db, n, e)}]]
           /\ UNCHANGED <<db, batch, mutex, writer, ret>>

PeekDone(r, status, item) ==
    LET p == reader[r]
    IN  /\ p.pc = "item"
        /\ reader' = [reader EXCEPT ![r] =
              [pc |-> "reply", status |-> status, emptied |-> p.emptied,
               popped |-> p.popped, seen |-> item \in p.held]]
        /\ UNCHANGED <<db, batch, mutex, writer, ret>>

PeekItem(r) ==
    LET item == db.item[reader[r].name][reader[r].mark]
    IN  PeekDone(r, IF item = NotFound THEN 0 ELSE 1, item)

(* The second Get fails; reply_get answers "error".                         *)
PeekError(r) == PeekDone(r, -1, NotFound)

PeekReply(r) ==
    /\ reader[r].pc = "reply"
    /\ reader' = [reader EXCEPT ![r] = Idle]
    /\ UNCHANGED <<db, batch, mutex, writer, ret>>

-----------------------------------------------------------------------------
Transact(w) == \/ Begin(w)
               \/ PushMark(w) \/ PushFull(w) \/ PushSize(w)
               \/ PopMark(w) \/ PopItem(w) \/ PopSize(w)
               \/ Commit(w) \/ Fail(w)
               \/ Unlock(w) \/ Reply(w)

WriterStep(w) == QpushCall(w) \/ QpopCall(w) \/ Transact(w)

ReaderStep(r) == PeekMark(r) \/ PeekItem(r) \/ PeekError(r) \/ PeekReply(r)

Next == \/ \E w \in Writers : WriterStep(w)
        \/ \E r \in Readers : ReaderStep(r)

Spec == Init /\ [][Next]_vars

(* A thread that has a call to run keeps running; the mutex is granted to a *)
(* thread that keeps asking for it.                                         *)
Fairness == \A w \in Writers : WF_vars(Transact(w)) /\ SF_vars(Begin(w))

FairSpec == Spec /\ Fairness

-----------------------------------------------------------------------------
(* Whatever the interleaving of the steps, every transaction takes effect   *)
(* as one operation on a deque: nothing another thread staged or wrote      *)
(* slips into it, and a refused operation leaves nothing behind.            *)
Atomic == INSTANCE DequeSpec WITH
            FrontEnd <- QFRONT_SEQ,
            BackEnd <- QBACK_SEQ,
            queue <- [n \in Names |-> Contents(db, n)],
            saved <- [n \in Names |-> <<>>]

TransactionsAreAtomic == Atomic!Spec

(* The queue after the first k items of the call.                           *)
AfterItems(op, q, e, items, k) ==
    LET after[i \in 0..k] ==
           IF i = 0 THEN q
           ELSE IF op = "pop" THEN Atomic!Popped(after[i-1], e)
           ELSE Atomic!Pushed(after[i-1], e, items[i])
    IN  after[k]

Committed(c) ==
    IF c.pc = "unlock" /\ Succeeded(c) THEN c.done + 1 ELSE c.done

(* A qpush of several items is one transaction per item.  With the one      *)
(* writer thread of the server its items still end up side by side, in      *)
(* order: at every moment (of a crash, or of a reply) the queue is what it  *)
(* was before the call with a prefix of the items pushed, all of them when  *)
(* the reply is "ok", not all when it is "error"; likewise for a qpop,      *)
(* whose reply lists exactly the items it removed.                          *)
CallIsAPrefix ==
    \A w \in Writers :
       LET c == writer[w]
       IN  c # Idle =>
             /\ Contents(db, c.name) = AfterItems(c.op, c.before, c.end, c.items, Committed(c))
             /\ c.pc = "reply" =>
                   /\ c.op = "push" => (c.done = c.count <=> c.val # -1)
                   /\ c.op = "push" /\ c.val # -1 => c.val = Len(Contents(db, c.name))
                   /\ c.op = "pop" =>
                         /\ Len(c.items) = c.done
                         /\ \A i \in 1..c.done :
                               c.items[i] = Atomic!Peeked(
                                   AfterItems("pop", c.before, c.end, c.items, i - 1), c.end)
                         /\ c.val = 0 => Contents(db, c.name) = <<>>

(* qfront and qback take no lock, yet are right as long as no item is       *)
(* popped meanwhile: they answer an item that was at that end during the    *)
(* call, and not_found only if the queue was empty during it.  (With a pop  *)
(* in between they may answer not_found about a queue that was never empty, *)
(* although t_queue.cpp:85 says "0: empty queue".)                          *)
PeekIsRightWithoutPops ==
    \A r \in Readers :
       LET p == reader[r]
       IN  p.pc = "reply" /\ ~p.popped =>
             /\ p.status = 1 => p.seen
             /\ p.status = 0 => p.emptied

(* Every call returns: none of the ways out of a transaction (success, a    *)
(* failing Get or Write, a full or an empty queue) leaves the mutex locked, *)
(* so that a handler gets it again for its next item and so does the other  *)
(* writer, which may come in between two items of one call.                 *)
CallsReturn == \A w \in Writers : writer[w].pc = "begin" ~> writer[w].pc = "idle"
=============================================================================
