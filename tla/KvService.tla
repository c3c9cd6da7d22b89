----------------------------- MODULE KvService -----------------------------
(***************************************************************************)
(* The key-value commands as the threads of the server run them: the       *)
(* handlers of src/proc_kv.cpp on the writer and reader threads, with      *)
(* GEMINIDBImpl::set, del, multi_set, multi_del and get (src/data/t_kv.cpp)*)
(* under them, one step per lock, staged write, Get, Write and unlock.     *)
(*                                                                         *)
(* A writing call is a sequence of changes [key, val], val being NotFound  *)
(* for a deletion; it stages them in the batch that all transactions share *)
(* and commits them with one Write.  A reading call takes no lock and does *)
(* one Get per key.  The name k is stored under the key 'k'+k, apart from  *)
(* the keys of the queues.  A crash of the process loses the calls that    *)
(* run and keeps what was written.                                         *)
(***************************************************************************)
EXTENDS Integers, Sequences, FiniteSets

CONSTANTS Keys,       \* the keys a client can name
          EmptyKey,   \* one of them: the empty string
          Values,     \* the values stored
          NotFound,   \* leveldb's answer for an absent key
          NoOp,       \* a key the batch does not touch
          Writers,    \* the threads of the writer pool (WRITER_THREADS = 1)
          Readers,    \* the threads of the reader pool
          Nobody,     \* no thread
          MaxKeys     \* bound: keys named by one request

ASSUME KvAssumption ==
    /\ EmptyKey \in Keys
    /\ NotFound \notin Values
    /\ NoOp \notin Values \cup {NotFound}
    /\ Nobody \notin Writers
    /\ MaxKeys \in Nat \ {0}

VARIABLES db,      \* what leveldb answers to a Get
          batch,   \* BinlogQueue::batch (a later change of a key replaces an earlier)
          mutex,   \* BinlogQueue::mutex: the thread holding it, or Nobody
          writer,  \* the call each writer thread runs
          reader   \* the call each reader thread runs

vars == <<db, batch, mutex, writer, reader>>

Change == [key : Keys, val : Values \cup {NotFound}]
Updates == UNION {[1..n -> Change] : n \in 1..MaxKeys}

EmptyBatch == [k \in Keys |-> NoOp]
Applied(b, d) == [k \in Keys |-> IF b[k] = NoOp THEN d[k] ELSE b[k]]

Idle == [pc |-> "idle"]

Init == /\ db = [k \in Keys |-> NotFound]
        /\ batch = EmptyBatch
        /\ mutex = Nobody
        /\ writer = [w \in Writers |-> Idle]
        /\ reader = [r \in Readers |-> Idle]

-----------------------------------------------------------------------------
(* The writing calls: the changes, how many of them are staged and, at the  *)
(* end, what the storage call returned (val).                               *)

Sets(u) == \A i \in DOMAIN u : u[i].val # NotFound
Deletes(u) == \A i \in DOMAIN u : u[i].val = NotFound

StartCall(w, op, u) ==
    /\ writer[w] = Idle
    /\ writer' = [writer EXCEPT ![w] =
          [pc |-> "begin", op |-> op, update |-> u, staged |-> 0]]
    /\ UNCHANGED <<db, batch, mutex, reader>>

(* reply_int(0, val) answers "ok" and the number whatever it is; the other  *)
(* handlers answer "error" for -1.                                          *)
Answer(status, val) == [status |-> status, val |-> val]

WriteReply(op, val) ==
    CASE op = "multi_set" -> Answer("ok", val)
      [] op = "multi_del" -> IF val = -1 THEN Answer("error", 0) ELSE Answer("ok", val)
      [] OTHER -> IF val = -1 THEN Answer("error", 0) ELSE Answer("ok", 1)

(* A storage call goes on at pc with n changes staged.                      *)
Proceed(w, pc, n) ==
    writer' = [writer EXCEPT ![w] =
                  [pc |-> pc, op |-> @.op, update |-> @.update, staged |-> n]]

(* It is over with the return value v.                                      *)
Return(w, pc, v) ==
    writer' = [writer EXCEPT ![w] =
                  [pc |-> pc, op |-> @.op, update |-> @.update, val |-> v]]

(* GEMINIDBImpl::set returns 0 for an empty key before it takes the mutex.  *)
SetCall(w) ==
    \E c \in Change : c.val # NotFound /\ StartCall(w, "set", <<c>>)

DelCall(w) ==
    \E c \in Change : c.val = NotFound /\ StartCall(w, "del", <<c>>)

MultiSetCall(w) == \E u \in Updates : Sets(u) /\ StartCall(w, "multi_set", u)

MultiDelCall(w) == \E u \in Updates : Deletes(u) /\ StartCall(w, "multi_del", u)

SetEmptyKey(w) ==
    /\ writer[w].pc = "begin"
    /\ writer[w].op = "set" /\ writer[w].update[1].key = EmptyKey
    /\ Return(w, "reply", 0)
    /\ UNCHANGED <<db, batch, mutex, reader>>

(* Mutex::lock and unlock, as Transaction calls them.                       *)
Lock(w) == mutex = Nobody /\ mutex' = w
Release == mutex' = Nobody

(* Mutant of Begin: the batch is not cleared.                               *)
Begin_keeps_batch(w) ==
    /\ writer[w].pc = "begin"
    /\ Lock(w)
    /\ Proceed(w, "stage", 0)
    /\ UNCHANGED <<db, batch, reader>>

(* Transaction::Transaction locks the mutex and clears the batch.           *)
Begin(w) ==
    /\ writer[w].pc = "begin"
    /\ ~(writer[w].op = "set" /\ writer[w].update[1].key = EmptyKey)
    /\ Lock(w)
    /\ batch' = EmptyBatch
    /\ Proceed(w, "stage", 0)
    /\ UNCHANGED <<db, reader>>

(* BinlogQueue::Put and Delete: the batch keeps the last word on a key.     *)
Put(change) == batch' = [batch EXCEPT ![change.key] = change.val]

(* Mutant of Stage: the loop runs one step too far.                         *)
Stage_past_end(w) ==
    LET c == writer[w]
        change == c.update[c.staged + 1]
    IN  /\ c.pc = "stage"
        /\ ~(c.op = "multi_set" /\ change.key = EmptyKey)
        /\ Put(change)
        /\ Proceed(w, IF c.staged = Len(c.update) THEN "commit" ELSE "stage", c.staged + 1)
        /\ UNCHANGED <<db, mutex, reader>>

(* One binlogs->Put or Delete.                                              *)
Stage(w) ==
    LET c == writer[w]
        change == c.update[c.staged + 1]
    IN  /\ c.pc = "stage"
        /\ ~(c.op = "multi_set" /\ change.key = EmptyKey)
        /\ Put(change)
        /\ Proceed(w, IF c.staged + 1 = Len(c.update) THEN "commit" ELSE "stage", c.staged + 1)
        /\ UNCHANGED <<db, mutex, reader>>

(* Mutant: the loop stops at the empty key instead of returning.            *)
StageEmptyKey_breaks(w) ==
    LET c == writer[w]
    IN  /\ c.pc = "stage"
        /\ c.op = "multi_set" /\ c.update[c.staged + 1].key = EmptyKey
        /\ Proceed(w, "commit", c.staged)
        /\ UNCHANGED <<db, batch, mutex, reader>>

(* multi_set meets an empty key: it returns 0, with the changes before it   *)
(* staged.                                                                  *)
StageEmptyKey(w) ==
    LET c == writer[w]
    IN  /\ c.pc = "stage"
        /\ c.op = "multi_set" /\ c.update[c.staged + 1].key = EmptyKey
        /\ Return(w, "unlock", 0)
        /\ UNCHANGED <<db, batch, mutex, reader>>

(* History: the readers at work are disturbed.                              *)
Disturb == reader' = [r \in Readers |-> IF reader[r] = Idle THEN Idle
                                        ELSE [reader[r] EXCEPT !.disturbed = TRUE]]

(* BinlogQueue::commit: db->Write applies the whole batch.                  *)
Commit(w) ==
    /\ writer[w].pc = "commit"
    /\ db' = Applied(batch, db)
    /\ Disturb
    /\ Return(w, "unlock", Len(writer[w].update))
    /\ UNCHANGED <<batch, mutex>>

(* The Write fails.                                                         *)
CommitError(w) ==
    /\ writer[w].pc = "commit"
    /\ Return(w, "unlock", -1)
    /\ UNCHANGED <<db, batch, mutex, reader>>

(* Transaction::~Transaction.                                               *)
Unlock(w) ==
    /\ writer[w].pc = "unlock"
    /\ Release
    /\ Return(w, "reply", writer[w].val)
    /\ UNCHANGED <<db, batch, reader>>

(* The handler answers; the thread takes its next job.                      *)
Reply(w) ==
    /\ writer[w].pc = "reply"
    /\ writer' = [writer EXCEPT ![w] = Idle]
    /\ UNCHANGED <<db, batch, mutex, reader>>

-----------------------------------------------------------------------------
(* The reading calls: one Get per key, without a lock.  The answers are     *)
(* collected key by key; disturbed (history) says that a transaction was    *)
(* committed, or a Get failed, since the call began.                        *)

ReadOps == {"get", "exists", "multi_get", "multi_exists"}

ReadCall(r) ==
    \E op \in ReadOps, n \in 1..MaxKeys : \E keys \in [1..n -> Keys] :
       /\ reader[r] = Idle
       /\ op \in {"get", "exists"} => n = 1
       /\ reader' = [reader EXCEPT ![r] =
             [pc |-> "get", op |-> op, keys |-> keys, read |-> 0, answer |-> <<>>,
              disturbed |-> FALSE]]
       /\ UNCHANGED <<db, batch, mutex, writer>>

(* Mutant of Stored: a Get that sees what a transaction has staged.         *)
Stored_staged(k) == Applied(batch, db)[k]

Stored(k) == db[k]

(* What a key contributes to the answer: nothing, if it is absent and the   *)
(* command lists what it found, otherwise the key with its value or bit.    *)
Entry(op, k, val) ==
    CASE op \in {"exists", "multi_exists"} -> <<[key |-> k, found |-> val # NotFound]>>
      [] OTHER -> IF val = NotFound THEN <<>> ELSE <<[key |-> k, val |-> val]>>

(* After the last key the call is ready to reply.                           *)
Answered(r, entry, disturbed) ==
    LET c == reader[r]
    IN  /\ c.pc = "get"
        /\ reader' = [reader EXCEPT ![r] =
              [c EXCEPT !.read = @ + 1, !.answer = @ \o entry, !.disturbed = disturbed,
                        !.pc = IF c.read + 1 = Len(c.keys) THEN "reply" ELSE @]]
        /\ UNCHANGED <<db, batch, mutex, writer>>

Get(r) ==
    LET k == reader[r].keys[reader[r].read + 1]
    IN  Answered(r, Entry(reader[r].op, k, Stored(k)), reader[r].disturbed)

(* A failing Get: an error for a single key; the multi commands answer as   *)
(* if the key were absent.                                                  *)
GetError(r) ==
    LET k == reader[r].keys[reader[r].read + 1]
    IN  Answered(r, IF reader[r].op \in {"get", "exists"} THEN <<>>
                    ELSE Entry(reader[r].op, k, NotFound), TRUE)

ReadReply(r) ==
    /\ reader[r].pc = "reply"
    /\ reader' = [reader EXCEPT ![r] = Idle]
    /\ UNCHANGED <<db, batch, mutex, writer>>

-----------------------------------------------------------------------------
(* The process ends and is started again.                                   *)
Restart ==
    /\ writer' = [w \in Writers |-> Idle]
    /\ reader' = [r \in Readers |-> Idle]
    /\ mutex' = Nobody
    /\ batch' = EmptyBatch
    /\ UNCHANGED <<db>>

WriterStep(w) == \/ SetCall(w) \/ DelCall(w) \/ MultiSetCall(w) \/ MultiDelCall(w)
                 \/ SetEmptyKey(w) \/ Begin(w) \/ Stage(w) \/ StageEmptyKey(w)
                 \/ Commit(w) \/ CommitError(w) \/ Unlock(w) \/ Reply(w)

ReaderStep(r) == ReadCall(r) \/ Get(r) \/ GetError(r) \/ ReadReply(r)

Next == \/ \E w \in Writers : WriterStep(w)
        \/ \E r \in Readers : ReaderStep(r)
        \/ Restart

Spec == Init /\ [][Next]_vars

-----------------------------------------------------------------------------
(* Every key holds one of the values or nothing, the staging of a call      *)
(* stays within its changes, and the mutex is held exactly between the      *)
(* begin and the unlock of a transaction.                                   *)
TypeOK ==
    /\ db \in [Keys -> Values \cup {NotFound}]
    /\ batch \in [Keys -> Values \cup {NotFound, NoOp}]
    /\ \A w \in Writers :
          /\ mutex = w <=> writer[w].pc \in {"stage", "commit", "unlock"}
          /\ writer[w].pc = "stage" => writer[w].staged < Len(writer[w].update)

(* Whatever is staged key by key, refused half-way, failed or interrupted,  *)
(* a writing call changes all its keys in one step, between its begin and   *)
(* its reply, or none, and its return value says which.                     *)
AbstractCall(c) ==
    CASE c.pc = "idle" -> [state |-> "none"]
      [] c.pc \in {"begin", "stage", "commit"} -> [state |-> "asked", update |-> c.update]
      [] c.pc \in {"unlock", "reply"} ->
            [state |-> "answered", update |-> c.update, val |-> c.val]

Map == INSTANCE MapSpec WITH
          Clients <- Writers,
          kv <- db,
          call <- [w \in Writers |-> AbstractCall(writer[w])]

ImplementsMap == Map!Spec

(* What the client is told: a positive answer means that all changes of the *)
(* call are stored (with the one writer thread, still so when it is sent).  *)
(* The one exception is a set of the empty key, which is answered "ok" "1"  *)
(* and stores nothing.  A multi_set that fails, or is refused, is told by   *)
(* "ok" and a number that is not positive.                                  *)
PositiveAnswerIsStored ==
    \A w \in Writers :
       LET c == writer[w]
           reply == WriteReply(c.op, c.val)
       IN  /\ c.pc = "reply" /\ reply.status = "ok" /\ reply.val > 0
           /\ ~(c.op = "set" /\ c.update[1].key = EmptyKey)
           => /\ reply.val = Len(c.update)
              /\ \A k \in Keys : db[k] = Map!ValueAfter(c.update, db[k], k)

(* What a call answers that reads the keys in a stored state d.             *)
Reading(op, keys, d) ==
    LET upto[i \in 0..Len(keys)] ==
           IF i = 0 THEN <<>> ELSE upto[i - 1] \o Entry(op, keys[i], d[keys[i]])
    IN  upto[Len(keys)]

(* The readers take no lock and read key by key, yet a call that no commit  *)
(* and no failing Get disturbs answers what is stored: it never sees what a *)
(* transaction beside it has staged, or has refused.                        *)
UndisturbedReadsAreSnapshots ==
    \A r \in Readers :
       LET c == reader[r]
       IN  c.pc = "reply" /\ ~c.disturbed => c.answer = Reading(c.op, c.keys, db)
=============================================================================
