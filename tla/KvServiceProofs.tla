-------------------------- MODULE KvServiceProofs --------------------------
(***************************************************************************)
(* KvService implements MapSpec, for all sets of keys, values and threads: *)
(* the writing commands, staged key by key in a batch all of them share,   *)
(* are atomic updates of a map.                                            *)
(*                                                                         *)
(* The invariant: the thread with the mutex is the one between begin and   *)
(* unlock, and the batch holds exactly what that thread has staged so far, *)
(* of several changes of a key the last one.                               *)
(*                                                                         *)
(* The readers take no part in the mutex: their own invariant says that    *)
(* what a call has answered so far is the stored map, key by key, unless a *)
(* commit or a failing Get disturbed the call.                             *)
(***************************************************************************)
EXTENDS KvService, SequenceTheorems, WellFoundedInduction, TLAPS

WriteOps == {"set", "del", "multi_set", "multi_del"}
Working == [pc : {"begin", "stage", "commit"}, op : WriteOps, update : Updates, staged : Nat]
Ended == [pc : {"unlock", "reply"}, op : WriteOps, update : Updates, val : Int]

Types ==
    /\ db \in [Keys -> Values \cup {NotFound}]
    /\ batch \in [Keys -> Values \cup {NotFound, NoOp}]
    /\ writer \in [Writers -> {Idle} \cup Working \cup Ended]

HoldsMutex(c) == c.pc \in {"stage", "commit", "unlock"}
Stages(c) == c.pc \in {"stage", "commit"}

MutexHeld == \A w \in Writers : mutex = w <=> HoldsMutex(writer[w])

(* How far the staging has come.                                            *)
Progress ==
    \A w \in Writers :
       LET c == writer[w]
       IN  /\ c.pc = "stage" => c.staged < Len(c.update)
           /\ c.pc = "commit" => c.staged = Len(c.update)

(* The batch b holds the first n changes of u and nothing else.             *)
Untouched(u, n, k) == \A i \in 1..n : u[i].key # k
LastOf(u, n, k, i) == /\ i \in 1..n
                      /\ u[i].key = k
                      /\ \A j \in 1..n : u[j].key = k => j <= i
Holds(b, u, n) ==
    \A k \in Keys : \/ Untouched(u, n, k) /\ b[k] = NoOp
                    \/ \E i \in 1..n : LastOf(u, n, k, i) /\ b[k] = u[i].val

BatchIsStaged ==
    \A w \in Writers :
       Stages(writer[w]) => Holds(batch, writer[w].update, writer[w].staged)

Inv == Types /\ MutexHeld /\ Progress /\ BatchIsStaged

-----------------------------------------------------------------------------
(* The updates, and what is staged of them.                                 *)

LEMMA UpdateType ==
    ASSUME NEW u \in Updates
    PROVE  /\ Len(u) \in Nat /\ Len(u) > 0
           /\ DOMAIN u = 1..Len(u)
           /\ \A i \in 1..Len(u) : u[i] \in Change
  <1>1. PICK n \in 1..MaxKeys : u \in [1..n -> Change]
    BY DEF Updates
  <1>2. n \in Nat /\ n > 0
    BY KvAssumption
  <1>3. u \in Seq(Change) /\ Len(u) = n
    BY <1>1, <1>2
  <1> QED
    BY <1>1, <1>2, <1>3

LEMMA NothingStaged ==
    ASSUME NEW u PROVE Holds(EmptyBatch, u, 0)
  BY DEF Holds, Untouched, EmptyBatch

(* Staging one more change, a Put or a Delete, in the batch.                *)
LEMMA OneMoreStaged ==
    ASSUME NEW u \in Updates, NEW n \in Nat, n < Len(u),
           NEW b \in [Keys -> Values \cup {NotFound, NoOp}], Holds(b, u, n)
    PROVE  Holds([b EXCEPT ![u[n + 1].key] = u[n + 1].val], u, n + 1)
  <1> DEFINE c == [b EXCEPT ![u[n + 1].key] = u[n + 1].val]
  <1>1. n + 1 \in 1..Len(u) /\ u[n + 1].key \in Keys
    BY UpdateType DEF Change
  <1>2. SUFFICES ASSUME NEW k \in Keys
        PROVE \/ Untouched(u, n + 1, k) /\ c[k] = NoOp
              \/ \E i \in 1..n + 1 : LastOf(u, n + 1, k, i) /\ c[k] = u[i].val
    BY DEF Holds
  <1>3. CASE k = u[n + 1].key
    <2>1. c[k] = u[n + 1].val
      BY <1>1, <1>3
    <2>2. LastOf(u, n + 1, k, n + 1)
      BY <1>3 DEF LastOf
    <2> QED
      BY <2>1, <2>2
  <1>4. CASE k # u[n + 1].key
    <2>1. c[k] = b[k]
      BY <1>1, <1>4
    <2>2. ASSUME Untouched(u, n, k) PROVE Untouched(u, n + 1, k)
      BY <2>2, <1>4 DEF Untouched
    <2>3. ASSUME NEW i \in 1..n, LastOf(u, n, k, i) PROVE i \in 1..n + 1 /\ LastOf(u, n + 1, k, i)
      BY <2>3, <1>4 DEF LastOf
    <2> HIDE DEF c
    <2> QED
      BY <2>1, <2>2, <2>3 DEF Holds
  <1> QED
    BY <1>3, <1>4

(* A whole update staged and written is the update of the map.              *)
LEMMA CommitIsUpdate ==
    ASSUME NEW u \in Updates, NEW b, NEW d, Holds(b, u, Len(u)), NEW k \in Keys
    PROVE  Applied(b, d)[k] = Map!ValueAfter(u, d[k], k)
  <1> DEFINE ofKey == {i \in DOMAIN u : u[i].key = k}
  <1>1. CASE Untouched(u, Len(u), k) /\ b[k] = NoOp
    <2>1. ofKey = {}
      BY <1>1, UpdateType DEF Untouched
    <2> QED
      BY <1>1, <2>1 DEF Applied, Map!ValueAfter
  <1>2. ASSUME NEW i \in 1..Len(u), LastOf(u, Len(u), k, i), b[k] = u[i].val
        PROVE  Applied(b, d)[k] = Map!ValueAfter(u, d[k], k)
    <2>1. i \in ofKey /\ \A j \in ofKey : j <= i
      BY <1>2, UpdateType DEF LastOf
    <2>2. ofKey \subseteq Nat
      BY UpdateType
    <2>3. i = CHOOSE m \in ofKey : \A j \in ofKey : j <= m
      <3> DEFINE last == CHOOSE m \in ofKey : \A j \in ofKey : j <= m
      <3>1. last \in ofKey /\ \A j \in ofKey : j <= last
        BY <2>1
      <3> HIDE DEF last
      <3>2. last <= i /\ i <= last /\ last \in Nat /\ i \in Nat
        BY <2>1, <2>2, <3>1
      <3>3. i = last
        BY <3>2
      <3> QED
        BY <3>3 DEF last
    <2>4. u[i].val # NoOp
      BY UpdateType, KvAssumption DEF Change
    <2>5. Map!ValueAfter(u, d[k], k) = u[i].val
      BY <2>1, <2>3 DEF Map!ValueAfter
    <2> QED
      BY <1>2, <2>4, <2>5 DEF Applied
  <1> QED
    BY <1>1, <1>2 DEF Holds

-----------------------------------------------------------------------------
LEMMA InitInv == Init => Inv
  <1> SUFFICES ASSUME Init PROVE Inv
    OBVIOUS
  <1>1. Types
    BY KvAssumption DEF Init, Types, EmptyBatch
  <1>2. MutexHeld
    BY KvAssumption DEF Init, MutexHeld, HoldsMutex, Idle
  <1>3. Progress /\ BatchIsStaged
    BY DEF Init, Progress, BatchIsStaged, Stages, Idle
  <1> QED
    BY <1>1, <1>2, <1>3 DEF Inv

(* What a step of one thread, whose call becomes c, has to see to.          *)
LEMMA CallChanges ==
    ASSUME Inv, NEW w \in Writers, NEW c \in {Idle} \cup Working \cup Ended,
           writer' = [writer EXCEPT ![w] = c],
           db' \in [Keys -> Values \cup {NotFound}],
           batch' \in [Keys -> Values \cup {NotFound, NoOp}],
           mutex' = w <=> HoldsMutex(c),
           \A v \in Writers \ {w} : mutex' = v <=> mutex = v,
           c.pc = "stage" => c.staged < Len(c.update),
           c.pc = "commit" => c.staged = Len(c.update),
           Stages(c) => Holds(batch', c.update, c.staged),
           batch' = batch \/ mutex \in {w, Nobody}
    PROVE  Inv'
  <1>1. writer'[w] = c /\ \A v \in Writers \ {w} : writer'[v] = writer[v]
    BY DEF Inv, Types
  <1>2. Types'
    BY DEF Inv, Types
  <1>3. MutexHeld'
    BY <1>1 DEF Inv, MutexHeld
  <1>4. Progress'
    BY <1>1 DEF Inv, Progress
  <1>5. BatchIsStaged'
    <2> SUFFICES ASSUME NEW v \in Writers, Stages(writer'[v])
                 PROVE  Holds(batch', writer'[v].update, writer'[v].staged)
      BY DEF BatchIsStaged
    <2>1. CASE v = w
      BY <2>1, <1>1
    <2>2. CASE v # w
      <3>1. Stages(writer[v]) /\ writer'[v] = writer[v]
        BY <2>2, <1>1
      <3>2. mutex = v
        BY <3>1 DEF Inv, MutexHeld, HoldsMutex, Stages
      <3>3. batch' = batch
        BY <2>2, <3>2, KvAssumption
      <3> QED
        BY <3>1, <3>3 DEF Inv, BatchIsStaged
    <2> QED
      BY <2>1, <2>2
  <1> QED
    BY <1>2, <1>3, <1>4, <1>5 DEF Inv

(* The call of a thread, by how far it is.                                  *)
LEMMA CallType ==
    ASSUME Inv, NEW w \in Writers
    PROVE  /\ writer[w] \in {Idle} \cup Working \cup Ended
           /\ writer[w].pc \in {"begin", "stage", "commit"} => writer[w] \in Working
           /\ writer[w].pc \in {"unlock", "reply"} => writer[w] \in Ended
  BY DEF Inv, Types, Working, Ended, Idle

LEMMA StartCallInv ==
    ASSUME Inv, NEW w \in Writers, NEW op \in WriteOps, NEW u \in Updates, StartCall(w, op, u)
    PROVE  Inv'
  <1> DEFINE c == [pc |-> "begin", op |-> op, update |-> u, staged |-> 0]
  <1>1. c \in Working /\ writer' = [writer EXCEPT ![w] = c]
    BY DEF StartCall, Working
  <1>2. mutex' = mutex /\ mutex # w
    BY DEF StartCall, Inv, MutexHeld, HoldsMutex, Idle
  <1>3. ~HoldsMutex(c) /\ ~Stages(c) /\ c.pc = "begin"
    BY DEF HoldsMutex, Stages
  <1>4. db' \in [Keys -> Values \cup {NotFound}] /\ batch' \in [Keys -> Values \cup {NotFound, NoOp}]
    BY DEF StartCall, Inv, Types
  <1>5. batch' = batch
    BY DEF StartCall
  <1> HIDE DEF c
  <1> QED
    BY <1>1, <1>2, <1>3, <1>4, <1>5, CallChanges

(* A single change is an update.                                            *)
LEMMA OneChange ==
    ASSUME NEW c \in Change PROVE <<c>> \in Updates
  <1>1. <<c>> \in [1..1 -> Change] /\ 1 \in 1..MaxKeys
    BY KvAssumption
  <1> QED
    BY <1>1 DEF Updates

LEMMA CallInv ==
    ASSUME Inv, NEW w \in Writers,
           SetCall(w) \/ DelCall(w) \/ MultiSetCall(w) \/ MultiDelCall(w)
    PROVE  Inv' /\ \E op \in WriteOps, u \in Updates : StartCall(w, op, u)
  <1>1. \E op \in WriteOps, u \in Updates : StartCall(w, op, u)
    BY OneChange DEF SetCall, DelCall, MultiSetCall, MultiDelCall, WriteOps
  <1> QED
    BY <1>1, StartCallInv

(* The steps that end a storage call or its transaction.                    *)
LEMMA ReturnInv ==
    ASSUME Inv, NEW w \in Writers, NEW pc \in {"unlock", "reply"}, NEW v \in Int,
           writer[w] \in Working \cup Ended, Return(w, pc, v),
           db' \in [Keys -> Values \cup {NotFound}], batch' = batch,
           mutex' = w <=> pc = "unlock",
           \A x \in Writers \ {w} : mutex' = x <=> mutex = x
    PROVE  Inv'
  <1> DEFINE c == [pc |-> pc, op |-> writer[w].op, update |-> writer[w].update, val |-> v]
  <1>1. writer' = [writer EXCEPT ![w] = c]
    BY DEF Return, Inv, Types
  <1>2. c \in Ended
    BY DEF Working, Ended
  <1>3. HoldsMutex(c) <=> pc = "unlock"
    BY DEF HoldsMutex
  <1>4. ~Stages(c) /\ c.pc \notin {"stage", "commit"}
    BY DEF Stages
  <1>5. batch' \in [Keys -> Values \cup {NotFound, NoOp}]
    BY DEF Inv, Types
  <1> HIDE DEF c
  <1> QED
    BY <1>1, <1>2, <1>3, <1>4, <1>5, CallChanges

LEMMA EndInv ==
    ASSUME Inv, NEW w \in Writers,
           \/ SetEmptyKey(w) \/ StageEmptyKey(w)
           \/ Commit(w) \/ CommitError(w) \/ Unlock(w)
    PROVE  Inv'
  <1>0. /\ writer[w].pc \in {"begin", "stage", "commit", "unlock"}
        /\ writer[w].pc # "begin" => mutex = w
        /\ writer[w].pc = "begin" => mutex # w
        /\ db \in [Keys -> Values \cup {NotFound}]
    BY DEF SetEmptyKey, StageEmptyKey, Commit, CommitError, Unlock, Inv, Types,
           MutexHeld, HoldsMutex
  <1>1. writer[w] \in Working \cup Ended
    BY <1>0, CallType
  <1>2. CASE SetEmptyKey(w)
    BY <1>0, <1>1, <1>2, ReturnInv DEF SetEmptyKey
  <1>3. CASE StageEmptyKey(w)
    <2>1. writer[w].pc = "stage" /\ Return(w, "unlock", 0) /\ UNCHANGED <<db, batch, mutex>>
      BY <1>3 DEF StageEmptyKey
    <2> QED
      BY <1>0, <1>1, <2>1, ReturnInv
  <1>4. CASE Commit(w)
    <2>1. Applied(batch, db) \in [Keys -> Values \cup {NotFound}]
      BY DEF Applied, Inv, Types
    <2>2. Len(writer[w].update) \in Int
      BY <1>4, CallType, UpdateType DEF Commit, Working
    <2> QED
      BY <1>0, <1>1, <1>4, <2>1, <2>2, ReturnInv DEF Commit
  <1>5. CASE CommitError(w)
    BY <1>0, <1>1, <1>5, ReturnInv DEF CommitError
  <1>6. CASE Unlock(w)
    <2>1. writer[w].val \in Int
      BY <1>6, CallType DEF Unlock, Ended
    <2>2. mutex' = Nobody /\ mutex = w /\ Return(w, "reply", writer[w].val) /\ UNCHANGED <<db, batch>>
      BY <1>0, <1>6 DEF Unlock, Release
    <2>3. mutex' # w /\ \A x \in Writers \ {w} : mutex' # x /\ mutex # x
      BY <2>2, KvAssumption
    <2> QED
      BY <1>0, <1>1, <2>1, <2>2, <2>3, ReturnInv
  <1> QED
    BY <1>2, <1>3, <1>4, <1>5, <1>6

LEMMA BeginInv ==
    ASSUME Inv, NEW w \in Writers, Begin(w) PROVE Inv'
  <1> DEFINE c == [pc |-> "stage", op |-> writer[w].op, update |-> writer[w].update, staged |-> 0]
  <1>1. writer[w] \in Working
    BY CallType DEF Begin
  <1>2. c \in Working /\ writer' = [writer EXCEPT ![w] = c]
    BY <1>1 DEF Begin, Proceed, Inv, Types, Working
  <1>3. mutex = Nobody /\ mutex' = w /\ batch' = EmptyBatch /\ db' = db
    BY DEF Begin, Lock
  <1>4. \A v \in Writers \ {w} : mutex' # v /\ mutex # v
    BY <1>3, KvAssumption
  <1>5. HoldsMutex(c) /\ c.pc = "stage" /\ c.staged = 0
    BY DEF HoldsMutex
  <1>6. c.staged < Len(c.update)
    BY <1>1, UpdateType DEF Working
  <1>7. Holds(batch', c.update, c.staged)
    BY <1>3, NothingStaged
  <1>8. db' \in [Keys -> Values \cup {NotFound}] /\ batch' \in [Keys -> Values \cup {NotFound, NoOp}]
    BY <1>3 DEF Inv, Types, EmptyBatch
  <1> HIDE DEF c
  <1> QED
    BY <1>2, <1>3, <1>4, <1>5, <1>6, <1>7, <1>8, CallChanges

LEMMA StageInv ==
    ASSUME Inv, NEW w \in Writers, Stage(w) PROVE Inv'
  <1> DEFINE u == writer[w].update
             n == writer[w].staged
             c == [pc |-> IF n + 1 = Len(u) THEN "commit" ELSE "stage",
                   op |-> writer[w].op, update |-> u, staged |-> n + 1]
  <1>1. writer[w] \in Working /\ writer[w].pc = "stage"
    BY CallType DEF Stage
  <1>2. u \in Updates /\ n \in Nat /\ n < Len(u) /\ Len(u) \in Nat
    BY <1>1, UpdateType DEF Working, Inv, Progress
  <1>3. c \in Working /\ writer' = [writer EXCEPT ![w] = c]
    BY <1>1, <1>2 DEF Stage, Proceed, Inv, Types, Working
  <1>4. mutex = w /\ UNCHANGED <<db, mutex>>
    BY <1>1 DEF Stage, Inv, MutexHeld, HoldsMutex
  <1>5. Holds(batch, u, n)
    BY <1>1 DEF Inv, BatchIsStaged, Stages
  <1>6. batch' = [batch EXCEPT ![u[n + 1].key] = u[n + 1].val]
    BY DEF Stage, Put
  <1>7. Holds(batch', u, n + 1)
    BY <1>2, <1>5, <1>6, OneMoreStaged DEF Inv, Types
  <1>8. u[n + 1] \in Change
    BY <1>2, UpdateType
  <1>9. db' \in [Keys -> Values \cup {NotFound}] /\ batch' \in [Keys -> Values \cup {NotFound, NoOp}]
    BY <1>4, <1>6, <1>8 DEF Inv, Types, Change
  <1>10. /\ c.pc \in {"stage", "commit"} /\ c.update = u /\ c.staged = n + 1
         /\ c.pc = "stage" => c.staged < Len(c.update)
         /\ c.pc = "commit" => c.staged = Len(c.update)
         /\ HoldsMutex(c)
    BY <1>2 DEF HoldsMutex
  <1> HIDE DEF c, u, n
  <1> QED
    BY <1>3, <1>4, <1>7, <1>9, <1>10, CallChanges

LEMMA ReplyInv ==
    ASSUME Inv, NEW w \in Writers, Reply(w) PROVE Inv'
  <1>1. mutex # w /\ mutex' = mutex
    BY DEF Reply, Inv, MutexHeld, HoldsMutex
  <1>2. ~HoldsMutex(Idle) /\ ~Stages(Idle) /\ Idle.pc = "idle"
    BY DEF HoldsMutex, Stages, Idle
  <1>3. db' \in [Keys -> Values \cup {NotFound}] /\ batch' = batch
        /\ batch \in [Keys -> Values \cup {NotFound, NoOp}]
    BY DEF Reply, Inv, Types
  <1>4. writer' = [writer EXCEPT ![w] = Idle]
    BY DEF Reply
  <1> QED
    BY <1>1, <1>2, <1>3, <1>4, CallChanges

LEMMA RestartInv ==
    ASSUME Inv, Restart PROVE Inv'
  <1>1. Types'
    BY DEF Restart, Inv, Types, EmptyBatch
  <1>2. MutexHeld'
    BY KvAssumption DEF Restart, MutexHeld, HoldsMutex, Idle
  <1>3. Progress' /\ BatchIsStaged'
    BY DEF Restart, Progress, BatchIsStaged, Stages, Idle
  <1> QED
    BY <1>1, <1>2, <1>3 DEF Inv

(* The readers change nothing but their own calls.                          *)
LEMMA ReaderChanges ==
    ASSUME NEW r \in Readers, ReaderStep(r) PROVE UNCHANGED <<db, batch, mutex, writer>>
  BY DEF ReaderStep, ReadCall, Get, GetError, Answered, ReadReply

LEMMA NextInv == Inv /\ [Next]_vars => Inv'
  <1> SUFFICES ASSUME Inv, [Next]_vars PROVE Inv'
    OBVIOUS
  <1>1. ASSUME UNCHANGED <<db, batch, mutex, writer>> PROVE Inv'
    BY <1>1 DEF Inv, Types, MutexHeld, Progress, BatchIsStaged
  <1>2. ASSUME NEW w \in Writers, WriterStep(w) PROVE Inv'
    BY <1>2, CallInv, EndInv, BeginInv, StageInv, ReplyInv DEF WriterStep
  <1>3. ASSUME NEW r \in Readers, ReaderStep(r) PROVE Inv'
    BY <1>1, <1>3, ReaderChanges
  <1>4. CASE UNCHANGED vars
    BY <1>1, <1>4 DEF vars
  <1> QED
    BY <1>2, <1>3, <1>4, RestartInv DEF Next

-----------------------------------------------------------------------------
(* Every key keeps a value of its kind, staging stays within the update,    *)
(* and the mutex of the transactions is held exactly from begin to unlock.  *)
THEOREM TypeCorrect == Spec => []TypeOK
  <1>1. Inv => TypeOK
    BY DEF Inv, Types, MutexHeld, Progress, HoldsMutex, TypeOK
  <1> QED
    BY InitInv, NextInv, <1>1, PTL DEF Spec

-----------------------------------------------------------------------------
(* The refinement.                                                          *)

call == [w \in Writers |-> AbstractCall(writer[w])]

LEMMA AbstractCalls ==
    /\ AbstractCall(Idle) = Map!NoCall
    /\ \A c \in Working : AbstractCall(c) = Map!Asked(c.update)
    /\ \A c \in Ended : AbstractCall(c) = Map!Answered(c.update, c.val)
  BY DEF AbstractCall, Idle, Working, Ended, Map!NoCall, Map!Asked, Map!Answered

LEMMA AbstractChange ==
    ASSUME Inv, NEW w \in Writers, NEW c, writer' = [writer EXCEPT ![w] = c]
    PROVE  call' = [call EXCEPT ![w] = AbstractCall(c)]
  <1>1. \A v \in Writers : writer'[v] = IF v = w THEN c ELSE writer[v]
    BY DEF Inv, Types
  <1>2. call' = [v \in Writers |-> AbstractCall(writer'[v])]
    BY DEF call
  <1>3. \A v \in Writers : AbstractCall(writer'[v]) = IF v = w THEN AbstractCall(c) ELSE call[v]
    BY <1>1 DEF call
  <1> QED
    BY <1>2, <1>3 DEF call

LEMMA StartIsAsk ==
    ASSUME Inv, NEW w \in Writers, NEW op \in WriteOps, NEW u \in Updates, StartCall(w, op, u)
    PROVE  Map!Ask(w, u)
  <1> DEFINE c == [pc |-> "begin", op |-> op, update |-> u, staged |-> 0]
  <1>1. c \in Working /\ c.update = u /\ writer' = [writer EXCEPT ![w] = c]
    BY DEF StartCall, Working
  <1> HIDE DEF c
  <1>2. call' = [call EXCEPT ![w] = Map!Asked(u)]
    BY <1>1, AbstractChange, AbstractCalls
  <1>3. call[w] = Map!NoCall
    BY AbstractCalls DEF StartCall, call
  <1> QED
    BY <1>2, <1>3 DEF StartCall, Map!Ask, call

(* Begin and Stage leave the abstract call as it is; so does Unlock.        *)
LEMMA Stutters ==
    ASSUME Inv, NEW w \in Writers, Begin(w) \/ Stage(w) \/ Unlock(w)
    PROVE  UNCHANGED <<db, call>>
  <1>1. db' = db
    BY DEF Begin, Stage, Unlock
  <1>2. CASE Begin(w) \/ Stage(w)
    <2>1. writer[w] \in Working
      BY <1>2, CallType DEF Begin, Stage
    <2>2. PICK pc \in {"stage", "commit"}, n \in Nat : Proceed(w, pc, n)
      BY <1>2, <2>1 DEF Begin, Stage, Working
    <2> DEFINE c == [pc |-> pc, op |-> writer[w].op, update |-> writer[w].update, staged |-> n]
    <2>3. c \in Working /\ c.update = writer[w].update /\ writer' = [writer EXCEPT ![w] = c]
      BY <2>1, <2>2 DEF Proceed, Working, Inv, Types
    <2> HIDE DEF c
    <2>4. AbstractCall(c) = AbstractCall(writer[w])
      BY <2>1, <2>3, AbstractCalls
    <2> QED
      BY <1>1, <2>3, <2>4, AbstractChange DEF call
  <1>3. CASE Unlock(w)
    <2>1. writer[w] \in Ended /\ Return(w, "reply", writer[w].val)
      BY <1>3, CallType DEF Unlock
    <2> DEFINE c == [pc |-> "reply", op |-> writer[w].op, update |-> writer[w].update,
                     val |-> writer[w].val]
    <2>2. /\ c \in Ended /\ c.update = writer[w].update /\ c.val = writer[w].val
          /\ writer' = [writer EXCEPT ![w] = c]
      BY <2>1 DEF Return, Ended, Inv, Types
    <2> HIDE DEF c
    <2>3. AbstractCall(c) = AbstractCall(writer[w])
      BY <2>1, <2>2, AbstractCalls
    <2> QED
      BY <1>1, <2>2, <2>3, AbstractChange DEF call
  <1> QED
    BY <1>2, <1>3

(* A storage call that returns v has answered v.                            *)
LEMMA ReturnAnswers ==
    ASSUME Inv, NEW w \in Writers, NEW v \in Int, NEW pc \in {"unlock", "reply"},
           writer[w] \in Working, Return(w, pc, v)
    PROVE  /\ call[w].state = "asked" /\ call[w].update = writer[w].update
           /\ call' = [call EXCEPT ![w] = Map!Answered(writer[w].update, v)]
  <1> DEFINE c == [pc |-> pc, op |-> writer[w].op, update |-> writer[w].update, val |-> v]
  <1>1. c \in Ended /\ c.update = writer[w].update /\ c.val = v
    BY DEF Working, Ended
  <1>2. writer' = [writer EXCEPT ![w] = c]
    BY DEF Return, Inv, Types
  <1> HIDE DEF c
  <1>3. call' = [call EXCEPT ![w] = Map!Answered(writer[w].update, v)]
    BY <1>1, <1>2, AbstractChange, AbstractCalls
  <1>4. call[w] = Map!Asked(writer[w].update)
    BY AbstractCalls DEF call
  <1> QED
    BY <1>3, <1>4 DEF Map!Asked

LEMMA RefusalRefuses ==
    ASSUME Inv, NEW w \in Writers, SetEmptyKey(w) \/ StageEmptyKey(w) \/ CommitError(w)
    PROVE  Map!Refuse(w)
  <1>1. writer[w] \in Working /\ db' = db
    BY CallType DEF SetEmptyKey, StageEmptyKey, CommitError
  <1>2. PICK v \in {0, -1}, pc \in {"unlock", "reply"} : Return(w, pc, v)
    BY DEF SetEmptyKey, StageEmptyKey, CommitError
  <1>3. /\ call[w].state = "asked"
        /\ call' = [call EXCEPT ![w] = Map!Answered(call[w].update, v)]
    BY <1>1, <1>2, ReturnAnswers
  <1> QED
    BY <1>1, <1>3 DEF Map!Refuse, call

LEMMA CommitApplies ==
    ASSUME Inv, NEW w \in Writers, Commit(w) PROVE Map!Apply(w)
  <1> DEFINE u == writer[w].update
  <1>1. writer[w] \in Working /\ u \in Updates /\ Return(w, "unlock", Len(u))
    BY CallType DEF Commit, Working
  <1>2. Len(u) \in Int
    BY <1>1, UpdateType
  <1>3. Holds(batch, u, Len(u))
    BY DEF Commit, Inv, BatchIsStaged, Stages, Progress
  <1>4. db' = Applied(batch, db)
    BY DEF Commit
  <1> HIDE DEF u
  <1>5. \A k \in Keys : db'[k] = Map!ValueAfter(u, db[k], k)
    BY <1>1, <1>3, <1>4, CommitIsUpdate
  <1>6. db' = [k \in Keys |-> Map!ValueAfter(u, db[k], k)]
    BY <1>4, <1>5 DEF Applied
  <1>7. /\ call[w].state = "asked" /\ call[w].update = u
        /\ call' = [call EXCEPT ![w] = Map!Answered(u, Len(u))]
    BY <1>1, <1>2, ReturnAnswers DEF u
  <1> QED
    BY <1>6, <1>7 DEF Map!Apply, call

LEMMA ReplyFinishes ==
    ASSUME Inv, NEW w \in Writers, Reply(w) PROVE Map!Finish(w)
  <1>1. writer[w] \in Ended /\ db' = db
    BY CallType DEF Reply
  <1>2. call[w] = Map!Answered(writer[w].update, writer[w].val)
    BY <1>1, AbstractCalls DEF call
  <1>3. call' = [call EXCEPT ![w] = Map!NoCall]
    BY AbstractChange, AbstractCalls DEF Reply
  <1> QED
    BY <1>1, <1>2, <1>3 DEF Map!Finish, Map!Answered, call

LEMMA RestartRestarts ==
    ASSUME Restart PROVE Map!Restart
  <1>1. \A w \in Writers : writer'[w] = Idle
    BY DEF Restart
  <1>2. [w \in Writers |-> AbstractCall(writer[w])]' = [w \in Writers |-> Map!NoCall]
    BY <1>1, AbstractCalls
  <1> QED
    BY <1>2 DEF Restart, Map!Restart

(* The writing commands are atomic updates of the map: staged key by key,   *)
(* refused half-way (GEMINIDBImpl::multi_set), failed in db->Write or lost  *)
(* in a restart, a call changes all its keys in one step or none, and its   *)
(* return value says which.                                                 *)
THEOREM KvServiceIsMap == Spec => ImplementsMap
  <1>1. Init => Map!Init
    <2> SUFFICES ASSUME Init PROVE Map!Init
      OBVIOUS
    <2>1. [w \in Writers |-> AbstractCall(writer[w])] = [w \in Writers |-> Map!NoCall]
      BY AbstractCalls DEF Init
    <2> QED
      BY <2>1 DEF Init, Map!Init
  <1>2. Inv /\ [Next]_vars => [Map!Next]_(Map!vars)
    <2> SUFFICES ASSUME Inv, [Next]_vars PROVE Map!Next \/ UNCHANGED <<db, call>>
      BY DEF Map!vars, call
    <2>1. ASSUME NEW w \in Writers, WriterStep(w) PROVE Map!Next \/ UNCHANGED <<db, call>>
      <3>1. CASE SetCall(w) \/ DelCall(w) \/ MultiSetCall(w) \/ MultiDelCall(w)
        BY <3>1, CallInv, StartIsAsk DEF Map!Next
      <3>2. CASE Begin(w) \/ Stage(w) \/ Unlock(w)
        BY <3>2, Stutters
      <3>3. CASE SetEmptyKey(w) \/ StageEmptyKey(w) \/ CommitError(w)
        BY <3>3, RefusalRefuses DEF Map!Next
      <3>4. CASE Commit(w) \/ Reply(w)
        BY <3>4, CommitApplies, ReplyFinishes DEF Map!Next
      <3> QED
        BY <2>1, <3>1, <3>2, <3>3, <3>4 DEF WriterStep
    <2>2. ASSUME NEW r \in Readers, ReaderStep(r) PROVE UNCHANGED <<db, call>>
      BY <2>2, ReaderChanges DEF call
    <2>3. CASE UNCHANGED vars
      BY <2>3 DEF vars, call
    <2> QED
      BY <2>1, <2>2, <2>3, RestartRestarts DEF Next, Map!Next
  <1> QED
    BY InitInv, NextInv, <1>1, <1>2, PTL DEF Spec, ImplementsMap, Map!Spec

-----------------------------------------------------------------------------
(* What the answers mean, with one writer thread.                           *)

SingleWriter == \A v, w \in Writers : v = w

AllStored(u, d) == \A k \in Keys : d[k] = Map!ValueAfter(u, d[k], k)

(* set and del have one change; a call that returned its number of changes  *)
(* has them stored, and the other answers are 0, of the two commands that   *)
(* look for empty keys, and -1.                                             *)
OfEmptyKey(c) == \/ c.op = "multi_set"
                 \/ c.op = "set" /\ c.update[1].key = EmptyKey

Meaning(c, d) ==
    /\ c.pc # "idle" /\ c.op \in {"set", "del"} => Len(c.update) = 1
    /\ c.pc \in {"unlock", "reply"} =>
          \/ c.val = Len(c.update) /\ AllStored(c.update, d)
          \/ c.val = 0 /\ OfEmptyKey(c)
          \/ c.val = -1

AnswersMean == \A w \in Writers : Meaning(writer[w], db)

LEMMA MeaningReturned ==
    ASSUME Inv, NEW w \in Writers, writer[w] \in Working, Meaning(writer[w], db),
           NEW pc \in {"unlock", "reply"}, NEW v \in Int, Return(w, pc, v),
           \/ v = Len(writer[w].update) /\ AllStored(writer[w].update, db')
           \/ v = 0 /\ OfEmptyKey(writer[w])
           \/ v = -1
    PROVE  Meaning(writer'[w], db')
  <1> DEFINE c == [pc |-> pc, op |-> writer[w].op, update |-> writer[w].update, val |-> v]
  <1>1. writer'[w] = c
    BY DEF Return, Inv, Types
  <1>2. c.op \in {"set", "del"} => Len(c.update) = 1
    BY DEF Meaning, Working
  <1>3. c.val = v /\ c.update = writer[w].update /\ (OfEmptyKey(c) <=> OfEmptyKey(writer[w]))
    BY DEF OfEmptyKey
  <1> HIDE DEF c
  <1> QED
    BY <1>1, <1>2, <1>3 DEF Meaning

LEMMA StartMeaning ==
    ASSUME NEW w \in Writers,
           Inv, SetCall(w) \/ DelCall(w) \/ MultiSetCall(w) \/ MultiDelCall(w)
    PROVE  Meaning(writer'[w], db')
  <1> SUFFICES ASSUME NEW op \in WriteOps, NEW u, StartCall(w, op, u),
                      op \in {"set", "del"} => Len(u) = 1
               PROVE  Meaning(writer'[w], db')
    BY DEF SetCall, DelCall, MultiSetCall, MultiDelCall, WriteOps
  <1>1. writer'[w] = [pc |-> "begin", op |-> op, update |-> u, staged |-> 0]
    BY DEF StartCall, Inv, Types
  <1> QED
    BY <1>1 DEF Meaning

LEMMA ProceedMeaning ==
    ASSUME NEW w \in Writers, Inv, Meaning(writer[w], db), Begin(w) \/ Stage(w)
    PROVE  Meaning(writer'[w], db')
  <1>1. writer[w] \in Working
    BY CallType DEF Begin, Stage
  <1>2. PICK pc \in {"stage", "commit"}, n \in Nat : Proceed(w, pc, n)
    BY <1>1 DEF Begin, Stage, Working
  <1>3. writer'[w] = [pc |-> pc, op |-> writer[w].op, update |-> writer[w].update, staged |-> n]
    BY <1>2 DEF Proceed, Inv, Types
  <1> QED
    BY <1>1, <1>3 DEF Meaning, Working

(* Applying an update a second time changes nothing.                        *)
LEMMA AppliedIsStored ==
    ASSUME NEW u \in Updates, NEW b, NEW d, Holds(b, u, Len(u))
    PROVE  AllStored(u, Applied(b, d))
  <1> SUFFICES ASSUME NEW k \in Keys
      PROVE Applied(b, d)[k] = Map!ValueAfter(u, Applied(b, d)[k], k)
    BY DEF AllStored
  <1>1. Applied(b, d)[k] = Map!ValueAfter(u, d[k], k)
    BY CommitIsUpdate
  <1>2. Map!ValueAfter(u, Map!ValueAfter(u, d[k], k), k) = Map!ValueAfter(u, d[k], k)
    BY DEF Map!ValueAfter
  <1> QED
    BY <1>1, <1>2

LEMMA EndMeaning ==
    ASSUME NEW w \in Writers, Inv, Meaning(writer[w], db),
           \/ SetEmptyKey(w) \/ StageEmptyKey(w)
           \/ Commit(w) \/ CommitError(w)
    PROVE  Meaning(writer'[w], db')
  <1>1. writer[w] \in Working
    BY CallType DEF SetEmptyKey, StageEmptyKey, Commit, CommitError
  <1>3. CASE SetEmptyKey(w)
    <2>1. OfEmptyKey(writer[w]) /\ Return(w, "reply", 0)
      BY <1>3 DEF SetEmptyKey, OfEmptyKey
    <2> QED
      BY <1>1, <2>1, MeaningReturned
  <1>4. CASE StageEmptyKey(w)
    <2>1. OfEmptyKey(writer[w]) /\ Return(w, "unlock", 0)
      BY <1>4 DEF StageEmptyKey, OfEmptyKey
    <2> QED
      BY <1>1, <2>1, MeaningReturned
  <1>5. CASE CommitError(w)
    <2>1. Return(w, "unlock", -1)
      BY <1>5 DEF CommitError
    <2> QED
      BY <1>1, <2>1, MeaningReturned
  <1>6. CASE Commit(w)
    <2>1. writer[w].update \in Updates /\ Len(writer[w].update) \in Int
      BY <1>1, UpdateType DEF Working
    <2>2. Holds(batch, writer[w].update, Len(writer[w].update))
      BY <1>6 DEF Commit, Inv, BatchIsStaged, Stages, Progress
    <2>3. AllStored(writer[w].update, db')
      BY <1>6, <2>1, <2>2, AppliedIsStored DEF Commit
    <2>4. Return(w, "unlock", Len(writer[w].update))
      BY <1>6 DEF Commit
    <2> QED
      BY <1>1, <2>1, <2>3, <2>4, MeaningReturned
  <1> QED
    BY <1>3, <1>4, <1>5, <1>6

LEMMA LeaveMeaning ==
    ASSUME NEW w \in Writers, Inv, Meaning(writer[w], db), Unlock(w) \/ Reply(w)
    PROVE  Meaning(writer'[w], db')
  <1>1. CASE Unlock(w)
    <2>1. writer[w] \in Ended /\ db' = db /\ writer[w].pc = "unlock"
      BY <1>1, CallType DEF Unlock
    <2>2. writer'[w] = [pc |-> "reply", op |-> writer[w].op,
                        update |-> writer[w].update, val |-> writer[w].val]
      BY <1>1 DEF Unlock, Return, Inv, Types
    <2> QED
      BY <2>1, <2>2 DEF Meaning, Ended, OfEmptyKey
  <1>2. CASE Reply(w)
    BY <1>2 DEF Reply, Inv, Types, Meaning, Idle
  <1> QED
    BY <1>1, <1>2

LEMMA AnswersMeanInv ==
    ASSUME SingleWriter PROVE Inv /\ AnswersMean /\ [Next]_vars => AnswersMean'
  <1> SUFFICES ASSUME Inv, AnswersMean, [Next]_vars PROVE AnswersMean'
    OBVIOUS
  <1>1. ASSUME NEW w \in Writers, WriterStep(w) PROVE AnswersMean'
    <2>1. Meaning(writer'[w], db')
      BY <1>1, StartMeaning, ProceedMeaning, EndMeaning, LeaveMeaning DEF AnswersMean, WriterStep
    <2> QED
      BY <2>1 DEF AnswersMean, SingleWriter
  <1>2. CASE Restart
    BY <1>2 DEF Restart, AnswersMean, Meaning, Idle
  <1>3. ASSUME UNCHANGED <<db, batch, mutex, writer>> PROVE AnswersMean'
    BY <1>3 DEF AnswersMean
  <1>4. ASSUME NEW r \in Readers, ReaderStep(r) PROVE AnswersMean'
    BY <1>3, <1>4, ReaderChanges
  <1>5. CASE UNCHANGED vars
    BY <1>3, <1>5 DEF vars
  <1> QED
    BY <1>1, <1>2, <1>4, <1>5 DEF Next

(* With one writer thread (WRITER_THREADS), a client that is told "ok" and  *)
(* a positive number finds all its changes stored when the answer is sent,  *)
(* except for a set of the empty key.                                       *)
THEOREM PositiveAnswers == ASSUME SingleWriter PROVE Spec => []PositiveAnswerIsStored
  <1>1. Init => AnswersMean
    BY DEF Init, AnswersMean, Meaning, Idle
  <1>2. Inv /\ AnswersMean /\ [Next]_vars => AnswersMean'
    BY AnswersMeanInv
  <1>3. Inv /\ AnswersMean => PositiveAnswerIsStored
    <2> SUFFICES ASSUME Inv, AnswersMean, NEW w \in Writers, writer[w].pc = "reply",
                        WriteReply(writer[w].op, writer[w].val).status = "ok",
                        WriteReply(writer[w].op, writer[w].val).val > 0,
                        ~(writer[w].op = "set" /\ writer[w].update[1].key = EmptyKey)
                 PROVE  /\ WriteReply(writer[w].op, writer[w].val).val = Len(writer[w].update)
                        /\ AllStored(writer[w].update, db)
      BY DEF PositiveAnswerIsStored, AllStored
    <2>1. writer[w] \in Ended /\ Meaning(writer[w], db)
      BY CallType DEF AnswersMean
    <2>2. CASE writer[w].op = "multi_set"
      <3>1. WriteReply(writer[w].op, writer[w].val) = Answer("ok", writer[w].val)
        BY <2>2 DEF WriteReply
      <3> QED
        BY <2>1, <2>2, <3>1 DEF Answer, Meaning, Ended, OfEmptyKey
    <2>3. CASE writer[w].op = "multi_del"
      <3>1. WriteReply(writer[w].op, writer[w].val) =
              IF writer[w].val = -1 THEN Answer("error", 0) ELSE Answer("ok", writer[w].val)
        BY <2>3 DEF WriteReply
      <3> QED
        BY <2>1, <2>3, <3>1 DEF Answer, Meaning, Ended, OfEmptyKey
    <2>4. CASE writer[w].op \in {"set", "del"}
      <3>1. WriteReply(writer[w].op, writer[w].val) =
              IF writer[w].val = -1 THEN Answer("error", 0) ELSE Answer("ok", 1)
        BY <2>4 DEF WriteReply
      <3>2. writer[w].val # -1
        BY <3>1 DEF Answer
      <3>3. ~OfEmptyKey(writer[w])
        BY <2>4 DEF OfEmptyKey
      <3>4. /\ writer[w].val = Len(writer[w].update) /\ AllStored(writer[w].update, db)
            /\ Len(writer[w].update) = 1
        BY <2>1, <2>4, <3>2, <3>3 DEF Meaning
      <3> QED
        BY <3>1, <3>2, <3>4 DEF Answer
    <2> QED
      BY <2>1, <2>2, <2>3, <2>4 DEF Ended, WriteOps
  <1> QED
    BY InitInv, NextInv, <1>1, <1>2, <1>3, PTL DEF Spec

-----------------------------------------------------------------------------
(* The readers.  Reading is defined by recursion over the keys; the facts   *)
(* about it rest on induction over the natural numbers, in the form of a    *)
(* set that is closed under successors.                                     *)
LEMMA NatSetInduction ==
    ASSUME NEW S, 0 \in S, \A k \in Nat : k \in S => k + 1 \in S
    PROVE  Nat \subseteq S
  <1> DEFINE T == Nat \ S
             R == OpToRel(<, Nat)
  <1>1. SUFFICES ASSUME T # {} PROVE FALSE
    OBVIOUS
  <1>2. \A x, y \in Nat : x < y => <<x, y>> \in R
    BY DEF OpToRel
  <1>3. PICK m \in T : \A y \in T : ~(<<y, m>> \in R)
    <2> HIDE DEF R
    <2>1. IsWellFoundedOn(R, Nat)
      BY NatLessThanWellFounded DEF R
    <2> HIDE DEF T
    <2>2. T \subseteq Nat
      BY DEF T
    <2> QED
      BY <1>1, <2>1, <2>2, WFMin
  <1>4. m \in Nat /\ m # 0 /\ m - 1 \in Nat /\ m - 1 < m
    OBVIOUS
  <1>5. m - 1 \notin T
    <2> HIDE DEF R, T
    <2> QED
      BY <1>2, <1>3, <1>4
  <1>6. m - 1 + 1 = m
    BY <1>4
  <1> QED
    BY <1>4, <1>5, <1>6

(* f holds the answers about the first keys, up to all n of them.           *)
IsReading(f, op, keys, d, n) ==
    f = [i \in 0..n |-> IF i = 0 THEN <<>> ELSE f[i - 1] \o Entry(op, keys[i], d[keys[i]])]

LEMMA ReadingExists ==
    ASSUME NEW op, NEW keys, NEW d, NEW n \in Nat
    PROVE  \E f : IsReading(f, op, keys, d, n)
  <1> DEFINE P(k) == \E f : IsReading(f, op, keys, d, k)
             S == {k \in Nat : P(k)}
             E(i) == Entry(op, keys[i], d[keys[i]])
  <1>1. P(0)
    <2> DEFINE f == [i \in 0..0 |-> <<>>]
    <2>1. f = [i \in 0..0 |-> IF i = 0 THEN <<>> ELSE f[i - 1] \o E(i)]
      OBVIOUS
    <2> HIDE DEF f
    <2> QED
      BY <2>1 DEF IsReading
  <1>2. ASSUME NEW k \in Nat, P(k) PROVE P(k + 1)
    <2>1. PICK f : f = [i \in 0..k |-> IF i = 0 THEN <<>> ELSE f[i - 1] \o E(i)]
      BY <1>2 DEF IsReading
    <2> HIDE DEF E
    <2> DEFINE g == [i \in 0..k+1 |-> IF i = k+1 THEN f[k] \o E(k+1) ELSE f[i]]
               r == [i \in 0..k+1 |-> IF i = 0 THEN <<>> ELSE g[i - 1] \o E(i)]
    <2>2. \A i \in 0..k+1 : g[i] = IF i = k+1 THEN f[k] \o E(k+1) ELSE f[i]
      OBVIOUS
    <2>3. DOMAIN g = 0..k+1 /\ g = [i \in DOMAIN g |-> g[i]]
      OBVIOUS
    <2> HIDE DEF g
    <2>4. \A i \in 0..k : i \in 0..k+1 /\ g[i] = f[i]
      BY <2>2
    <2>5. ASSUME NEW i \in 0..k+1
          PROVE  g[i] = IF i = 0 THEN <<>> ELSE g[i - 1] \o E(i)
      <3>1. CASE i = k + 1
        <4>1. i # 0 /\ i - 1 = k /\ k \in 0..k
          BY <3>1
        <4> QED
          BY <2>2, <2>4, <3>1, <4>1
      <3>2. CASE i = 0
        <4>1. 0 \in 0..k
          OBVIOUS
        <4> QED
          BY <2>1, <2>4, <3>2, <4>1
      <3>3. CASE i # k + 1 /\ i # 0
        <4>1. i \in 0..k /\ i - 1 \in 0..k
          BY <3>3
        <4>2. f[i] = f[i - 1] \o E(i)
          BY <2>1, <3>3, <4>1
        <4> QED
          BY <2>4, <3>3, <4>1, <4>2
      <3> QED
        BY <3>1, <3>2, <3>3
    <2>6. g = r
      BY <2>3, <2>5
    <2> QED
      BY <2>6 DEF IsReading, E
  <1>3. n \in S
    <2> HIDE DEF P
    <2>1. 0 \in S /\ \A k \in Nat : k \in S => k + 1 \in S
      BY <1>1, <1>2
    <2> HIDE DEF S
    <2> QED
      BY <2>1, NatSetInduction
  <1> QED
    BY <1>3

(* What a call has answered when it has read the first n of its keys.       *)
ReadingOf(op, keys, d) == CHOOSE f : IsReading(f, op, keys, d, Len(keys))

(* Key by key, the answer grows by one entry.                               *)
KeyByKey(f, op, keys, d) ==
    /\ f[0] = <<>>
    /\ \A i \in 1..Len(keys) : f[i] = f[i - 1] \o Entry(op, keys[i], d[keys[i]])

LEMMA ReadingIs ==
    ASSUME NEW op, NEW keys, NEW d, Len(keys) \in Nat
    PROVE  /\ KeyByKey(ReadingOf(op, keys, d), op, keys, d)
           /\ Reading(op, keys, d) = ReadingOf(op, keys, d)[Len(keys)]
  <1> DEFINE f == ReadingOf(op, keys, d)
  <1>1. IsReading(f, op, keys, d, Len(keys))
    BY ReadingExists, Zenon DEF ReadingOf
  <1>2. Reading(op, keys, d) = f[Len(keys)]
    BY DEF Reading, ReadingOf, IsReading
  <1> HIDE DEF f
  <1>3. KeyByKey(f, op, keys, d)
    <2> DEFINE n == Len(keys)
               E(i) == Entry(op, keys[i], d[keys[i]])
    <2>1. f = [i \in 0..n |-> IF i = 0 THEN <<>> ELSE f[i - 1] \o E(i)] /\ n \in Nat
      BY <1>1 DEF IsReading
    <2> HIDE DEF n, E
    <2>2. f[0] = <<>>
      BY <2>1
    <2>3. ASSUME NEW i \in 1..n PROVE f[i] = f[i - 1] \o E(i)
      <3>1. i \in 0..n /\ i # 0
        BY <2>1
      <3> QED
        BY <2>1, <3>1
    <2> QED
      BY <2>2, <2>3 DEF n, E, KeyByKey
  <1> QED
    BY <1>2, <1>3 DEF f

-----------------------------------------------------------------------------
(* What a reader has answered so far is what is stored of the keys it has   *)
(* read, unless it was disturbed.                                           *)
Entries == [key : Keys, found : BOOLEAN] \cup [key : Keys, val : Values]
Reads == [pc : {"get", "reply"}, op : ReadOps, keys : Seq(Keys), read : Nat,
          answer : Seq(Entries), disturbed : BOOLEAN]

ReadOf(c, d) ==
    /\ c \in Reads
    /\ c.pc = "get" => c.read < Len(c.keys)
    /\ c.pc = "reply" => c.read = Len(c.keys)
    /\ ~c.disturbed => c.answer = ReadingOf(c.op, c.keys, d)[c.read]

ReadInv ==
    /\ DOMAIN reader = Readers
    /\ reader = [r \in DOMAIN reader |-> reader[r]]
    /\ \A r \in Readers : reader[r] # Idle => ReadOf(reader[r], db)

LEMMA EntryType ==
    ASSUME NEW op, NEW k \in Keys, NEW val \in Values \cup {NotFound}
    PROVE  Entry(op, k, val) \in Seq(Entries)
  <1>1. CASE op \in {"exists", "multi_exists"}
    <2>1. [key |-> k, found |-> val # NotFound] \in Entries
      BY DEF Entries
    <2> QED
      BY <1>1, <2>1 DEF Entry
  <1>2. CASE op \notin {"exists", "multi_exists"} /\ val # NotFound
    <2>1. [key |-> k, val |-> val] \in Entries
      BY <1>2 DEF Entries
    <2> QED
      BY <1>2, <2>1 DEF Entry
  <1>3. CASE op \notin {"exists", "multi_exists"} /\ val = NotFound
    BY <1>3 DEF Entry
  <1> QED
    BY <1>1, <1>2, <1>3

LEMMA OneReaderMoves ==
    ASSUME ReadInv, NEW r \in Readers, NEW c, reader' = [reader EXCEPT ![r] = c],
           db' = db, c # Idle => ReadOf(c, db)
    PROVE  ReadInv'
  BY DEF ReadInv

LEMMA ReadCallInv ==
    ASSUME ReadInv, NEW r \in Readers, ReadCall(r)
    PROVE  ReadInv'
  <1>1. PICK op \in ReadOps, n \in 1..MaxKeys :
           \E keys \in [1..n -> Keys] :
              /\ reader' = [reader EXCEPT ![r] =
                    [pc |-> "get", op |-> op, keys |-> keys, read |-> 0, answer |-> <<>>,
                     disturbed |-> FALSE]]
              /\ db' = db
    BY DEF ReadCall
  <1>2. PICK keys \in [1..n -> Keys] :
           /\ reader' = [reader EXCEPT ![r] =
                 [pc |-> "get", op |-> op, keys |-> keys, read |-> 0, answer |-> <<>>,
                  disturbed |-> FALSE]]
           /\ db' = db
    BY <1>1
  <1> DEFINE c == [pc |-> "get", op |-> op, keys |-> keys, read |-> 0, answer |-> <<>>,
                   disturbed |-> FALSE]
  <1>3. keys \in Seq(Keys) /\ Len(keys) = n /\ n \in Nat /\ n > 0
    BY KvAssumption
  <1>4. c \in Reads
    BY <1>3 DEF Reads
  <1>5. c.answer = ReadingOf(c.op, c.keys, db)[c.read]
    <2>1. ReadingOf(op, keys, db)[0] = <<>>
      BY <1>3, ReadingIs DEF KeyByKey
    <2> QED
      BY <2>1
  <1>6. c.pc = "get" /\ c.read = 0 /\ c.keys = keys
    OBVIOUS
  <1>7. reader' = [reader EXCEPT ![r] = c] /\ db' = db
    BY <1>2
  <1> HIDE DEF c
  <1> QED
    BY <1>3, <1>4, <1>5, <1>6, <1>7, OneReaderMoves DEF ReadOf

(* One Get, or a Get that fails and disturbs the call.                      *)
LEMMA AnsweredInv ==
    ASSUME ReadInv, NEW r \in Readers, NEW entry \in Seq(Entries), NEW disturbed \in BOOLEAN,
           Answered(r, entry, disturbed),
           ~disturbed => /\ ~reader[r].disturbed
                         /\ LET k == reader[r].keys[reader[r].read + 1]
                            IN  entry = Entry(reader[r].op, k, db[k])
    PROVE  ReadInv'
  <1> DEFINE c == reader[r]
             n == c.read + 1
             pc == IF n = Len(c.keys) THEN "reply" ELSE "get"
             more == c.answer \o entry
             c2 == [c EXCEPT !.read = n, !.answer = more, !.disturbed = disturbed, !.pc = pc]
  <1>1. c.pc = "get" /\ db' = db /\ ReadOf(c, db) /\ c \in Reads
    BY DEF Answered, ReadInv, ReadOf, Idle
  <1>2. reader' = [reader EXCEPT ![r] = c2]
    <2>1. [c EXCEPT !.read = @ + 1, !.answer = @ \o entry, !.disturbed = disturbed,
                    !.pc = IF c.read + 1 = Len(c.keys) THEN "reply" ELSE @] = c2
      BY <1>1 DEF Reads
    <2> HIDE DEF c2
    <2> QED
      BY <2>1 DEF Answered
  <1>3. /\ ~disturbed => /\ ~c.disturbed
                         /\ entry = Entry(c.op, c.keys[n], db[c.keys[n]])
    OBVIOUS
  <1> HIDE DEF c
  <1>4. /\ c.read \in Nat /\ c.keys \in Seq(Keys) /\ c.answer \in Seq(Entries)
        /\ c.read < Len(c.keys) /\ Len(c.keys) \in Nat
    BY <1>1 DEF Reads, ReadOf
  <1>5. n \in 1..Len(c.keys) /\ n - 1 = c.read /\ n \in Nat
    BY <1>4
  <1>6. more \in Seq(Entries)
    BY <1>4, ConcatProperties
  <1>7. pc \in {"get", "reply"} /\ (pc = "get" => n < Len(c.keys)) /\ (pc = "reply" => n = Len(c.keys))
    BY <1>4
  <1>8. ~disturbed => more = ReadingOf(c.op, c.keys, db)[n]
    <2> SUFFICES ASSUME ~disturbed PROVE more = ReadingOf(c.op, c.keys, db)[n]
      OBVIOUS
    <2>1. c.answer = ReadingOf(c.op, c.keys, db)[n - 1]
      BY <1>1, <1>3, <1>5 DEF ReadOf
    <2>2. ReadingOf(c.op, c.keys, db)[n] = ReadingOf(c.op, c.keys, db)[n - 1] \o Entry(c.op, c.keys[n], db[c.keys[n]])
      <3> HIDE DEF n
      <3>1. KeyByKey(ReadingOf(c.op, c.keys, db), c.op, c.keys, db)
        BY <1>4, ReadingIs
      <3> QED
        BY <1>5, <3>1 DEF KeyByKey
    <2> QED
      BY <1>3, <2>1, <2>2
  <1> HIDE DEF n, pc, more
  <1>9. /\ c2 \in Reads /\ c2.op = c.op /\ c2.keys = c.keys /\ c2.read = n
        /\ c2.pc = pc /\ c2.answer = more /\ c2.disturbed = disturbed
    BY <1>1, <1>5, <1>6, <1>7 DEF Reads
  <1> HIDE DEF c2
  <1>10. ReadOf(c2, db)
    BY <1>7, <1>8, <1>9 DEF ReadOf
  <1> QED
    BY <1>1, <1>2, <1>10, OneReaderMoves

LEMMA GetInv ==
    ASSUME Inv, ReadInv, NEW r \in Readers, Get(r) \/ GetError(r)
    PROVE  ReadInv'
  <1> DEFINE c == reader[r]
             k == c.keys[c.read + 1]
  <1>1. c.pc = "get"
    BY DEF Get, GetError, Answered
  <1>2. ReadOf(c, db) /\ c \in Reads
    BY <1>1 DEF ReadInv, ReadOf, Idle
  <1>3. k \in Keys
    <2> HIDE DEF c
    <2>1. c.keys \in Seq(Keys) /\ c.read \in Nat /\ c.read < Len(c.keys) /\ Len(c.keys) \in Nat
      BY <1>1, <1>2 DEF ReadOf, Reads
    <2>2. c.read + 1 \in 1..Len(c.keys)
      BY <2>1
    <2> QED
      BY <2>1, <2>2, ElementOfSeq
  <1>4. /\ Stored(k) \in Values \cup {NotFound}
        /\ Stored(k) = db[k]
    BY <1>3 DEF Stored, Inv, Types
  <1>5. /\ Entry(c.op, k, Stored(k)) \in Seq(Entries)
        /\ Entry(c.op, k, NotFound) \in Seq(Entries)
        /\ <<>> \in Seq(Entries)
    <2> HIDE DEF k
    <2> QED
      BY <1>3, <1>4, EntryType
  <1>6. CASE Get(r)
    <2>1. c.disturbed \in BOOLEAN
      <3> HIDE DEF c
      <3> QED
        BY <1>2 DEF Reads
    <2>2. Answered(r, Entry(c.op, k, Stored(k)), c.disturbed)
      BY <1>6 DEF Get
    <2>3. Entry(c.op, k, Stored(k)) = Entry(c.op, k, db[k])
      BY <1>4
    <2> QED
      BY <1>5, <2>1, <2>2, <2>3, AnsweredInv
  <1>7. CASE GetError(r)
    <2>1. PICK entry \in Seq(Entries) : Answered(r, entry, TRUE)
      BY <1>5, <1>7 DEF GetError
    <2> QED
      BY <2>1, AnsweredInv
  <1> QED
    BY <1>6, <1>7

LEMMA ReaderStepInv ==
    ASSUME Inv, ReadInv, NEW r \in Readers, ReaderStep(r)
    PROVE  ReadInv'
  <1>1. CASE ReadReply(r)
    BY <1>1, OneReaderMoves DEF ReadReply
  <1> QED
    BY <1>1, ReadCallInv, GetInv DEF ReaderStep

(* A commit disturbs every reader that is at work.                          *)
LEMMA DisturbInv ==
    ASSUME ReadInv, Disturb
    PROVE  ReadInv'
  <1> SUFFICES ASSUME NEW r \in Readers, reader'[r] # Idle
               PROVE  ReadOf(reader'[r], db')
    BY DEF ReadInv, Disturb
  <1> DEFINE c == reader[r]
             c2 == [c EXCEPT !.disturbed = TRUE]
  <1>1. c # Idle /\ reader'[r] = c2 /\ ReadOf(c, db) /\ c \in Reads
    BY DEF Disturb, ReadInv, ReadOf
  <1> HIDE DEF c
  <1>2. c2 \in Reads /\ c2.pc = c.pc /\ c2.read = c.read /\ c2.keys = c.keys /\ c2.disturbed
    BY <1>1 DEF Reads
  <1> HIDE DEF c2
  <1> QED
    BY <1>1, <1>2 DEF ReadOf

LEMMA ReadNextInv == Inv /\ ReadInv /\ [Next]_vars => ReadInv'
  <1> SUFFICES ASSUME Inv, ReadInv, [Next]_vars PROVE ReadInv'
    OBVIOUS
  <1>1. CASE UNCHANGED <<db, reader>>
    BY <1>1 DEF ReadInv
  <1>2. ASSUME NEW w \in Writers, WriterStep(w) PROVE ReadInv'
    <2>1. CASE Commit(w)
      BY <2>1, DisturbInv DEF Commit
    <2>2. CASE ~Commit(w)
      BY <1>1, <1>2, <2>2
      DEF WriterStep, SetCall, DelCall, MultiSetCall, MultiDelCall, StartCall, SetEmptyKey,
          Begin, Stage, StageEmptyKey, CommitError, Unlock, Reply
    <2> QED
      BY <2>1, <2>2
  <1>3. CASE Restart
    BY <1>3 DEF Restart, ReadInv
  <1>4. ASSUME NEW r \in Readers, ReaderStep(r) PROVE ReadInv'
    BY <1>4, ReaderStepInv
  <1>5. CASE UNCHANGED vars
    BY <1>1, <1>5 DEF vars
  <1> QED
    BY <1>2, <1>3, <1>4, <1>5 DEF Next

(* get, exists, multi_get and multi_exists take no lock and read key by     *)
(* key.  A call that no commit and no failing Get disturbs answers the      *)
(* stored map as it is: no reader ever sees what a transaction has only     *)
(* staged, or has refused.                                                  *)
THEOREM ReadsAreSnapshots == Spec => []UndisturbedReadsAreSnapshots
  <1>1. Init => ReadInv
    BY DEF Init, ReadInv
  <1>2. ReadInv => UndisturbedReadsAreSnapshots
    <2> SUFFICES ASSUME ReadInv, NEW r \in Readers, reader[r].pc = "reply", ~reader[r].disturbed
                 PROVE  reader[r].answer = Reading(reader[r].op, reader[r].keys, db)
      BY DEF UndisturbedReadsAreSnapshots
    <2> DEFINE c == reader[r]
    <2>1. ReadOf(c, db) /\ c.pc = "reply" /\ ~c.disturbed
      BY DEF ReadInv, Idle
    <2> HIDE DEF c
    <2>2. c.answer = ReadingOf(c.op, c.keys, db)[Len(c.keys)]
      BY <2>1 DEF ReadOf
    <2>3. Len(c.keys) \in Nat
      BY <2>1 DEF ReadOf, Reads
    <2>4. Reading(c.op, c.keys, db) = ReadingOf(c.op, c.keys, db)[Len(c.keys)]
      BY <2>3, ReadingIs
    <2> QED
      BY <2>2, <2>4 DEF c
  <1> QED
    BY <1>1, <1>2, InitInv, NextInv, ReadNextInv, PTL DEF Spec
=============================================================================
