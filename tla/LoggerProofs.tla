---------------------------- MODULE LoggerProofs ----------------------------
(***************************************************************************)
(* Theorems about Logger, for all numbers of threads, sizes and rates: Inv *)
(* carries the counter, the sizes and the names of the files; OrderInv     *)
(* adds the order of the lines in them, and with it Logger implements      *)
(* LogSpec.                                                                *)
(***************************************************************************)
EXTENDS Logger, WellFoundedInduction, TLAPS

(* Only the thread at close, name and rename has counted past the limit;    *)
(* from fclose to fopen fp dangles; before fopen there is no file.          *)
Rotating ==
    \A t \in Threads :
       /\ call[t].pc \in {"close", "name", "rename"} =>
             file # NoFile /\ w_curr > RotateSize
       /\ call[t].pc \in {"name", "rename", "reopen"} => fp = "closed"
       /\ call[t].pc = "reopen" => file = NoFile

(* After a failed rename the file is still there, and the counter past the  *)
(* limit.                                                                   *)
Dangling ==
    fp = "closed" /\ (\A t \in Threads : call[t].pc # "reopen") =>
       file # NoFile /\ w_curr > RotateSize

NothingLost == fp # "open" => lost = 0

Stopped == ~running => /\ fp = "null" /\ mutex = Nobody
                       /\ \A t \in Threads : call[t] = Idle

(* What is left of the bound of FilesBounded before the next write.         *)
RoomForALine ==
    running => /\ lives >= 1
               /\ fp = "open" /\ (\A t \in Threads : call[t].pc # "close") =>
                     w_curr <= RotateSize + (lives - 1) * MaxLine

(* No archive is of the future; if there is one of this second, then all    *)
(* that is in the file or counted was logged in this second; and the name a *)
(* rotation has chosen is free.                                             *)
FreshNames ==
    /\ \A s \in Seconds : archive[s] # NoFile => s <= now
    /\ archive[now] # NoFile /\ file # NoFile =>
          file.size <= sent /\ (running => w_curr <= sent)
    /\ \A t \in Threads : call[t].pc = "rename" =>
          call[t].newpath <= now /\ archive[call[t].newpath] = NoFile

Inv == /\ TypeOK
       /\ CounterIsSizePlusLost /\ FilesBounded
       /\ Rotating /\ Dangling /\ NothingLost /\ Stopped /\ RoomForALine /\ FreshNames

-----------------------------------------------------------------------------
(* A step of thread t moves its call to pc and no other; the other threads  *)
(* do not hold the mutex while t does.                                      *)
LEMMA Moves ==
    ASSUME TypeOK, NEW t \in Threads,
           NEW pc \in {"lock"} \cup Holding, NEW len \in Lengths, NEW s \in Seconds,
           call' = [call EXCEPT ![t] = Stage(pc, len, s)]
    PROVE  /\ call' \in [Threads -> Calls]
           /\ call'[t].pc = pc /\ call'[t].newpath = s
           /\ \A u \in Threads : u # t => call'[u] = call[u]
  BY DEF TypeOK, Stage, Calls

LEMMA Exclusive ==
    ASSUME TypeOK, NEW t \in Threads, call[t].pc \in Holding
    PROVE  /\ mutex = t
           /\ \A u \in Threads : u # t => call[u].pc \notin Holding
           /\ call[t].len \in Lengths /\ call[t].newpath \in Seconds
           /\ running \/ ~Stopped
  BY LogAssumption DEF TypeOK, Calls, Idle, Holding, Stopped

LEMMA Bounds ==
    /\ RotateSize \in Nat /\ RotateSize > 0 /\ MaxLine \in Nat /\ MaxLine > 0
    /\ MaxRate \in Nat /\ MaxRate <= RotateSize
    /\ MaxTime \in Nat /\ MaxCalls \in Nat
    /\ NoFile \notin Files
    /\ EmptyFile \in Files
    /\ \A n \in Nat : n * MaxLine \in Nat /\ (n + 1) * MaxLine = n * MaxLine + MaxLine
  BY LogAssumption DEF Files, Lines, EmptyFile

(* FilesBounded, file by file.                                              *)
Within(f) == f # NoFile => f.size <= RotateSize + lives * MaxLine

LEMMA EachFile == FilesBounded <=> Within(file) /\ \A s \in Seconds : Within(archive[s])
  BY DEF FilesBounded, Within

-----------------------------------------------------------------------------
(* The steps, one lemma each.                                               *)
LEMMA StartKeeps == Inv /\ Start => Inv'
  <1> SUFFICES ASSUME Inv, Start PROVE Inv'
    OBVIOUS
  <1> USE Bounds DEF Inv, Start
  <1>1. /\ \A t \in Threads : call[t].pc \notin Holding
        /\ fp = "null"
    BY LogAssumption DEF Stopped, TypeOK
  <1>2. file' \in Files /\ file' # NoFile /\ (file = NoFile => file'.size = 0)
    BY DEF TypeOK, EmptyFile
  <1>3. TypeOK'
    BY <1>2 DEF TypeOK, Files
  <1>4. CounterIsSizePlusLost'
    BY <1>1, <1>2 DEF CounterIsSizePlusLost, NothingLost, Files
  <1>5. lives * MaxLine \in Nat /\ lives' * MaxLine = lives * MaxLine + MaxLine
    BY DEF TypeOK
  <1>6. FilesBounded'
    <2>1. \A n \in Nat : n <= RotateSize + lives * MaxLine =>
                          n <= RotateSize + lives' * MaxLine
      BY <1>5
    <2>2. 0 <= RotateSize + lives' * MaxLine
      BY <1>5
    <2>3. \A s \in Seconds : archive[s] # NoFile => archive[s].size \in Nat
      BY DEF TypeOK, Files
    <2>4. file # NoFile => file' = file /\ file.size \in Nat
      BY DEF TypeOK, Files
    <2>5. Within(file)'
      BY <1>2, <2>1, <2>2, <2>4, EachFile DEF Within
    <2>6. \A s \in Seconds : Within(archive[s])'
      BY <2>1, <2>3, EachFile DEF Within
    <2> QED
      BY <2>5, <2>6 DEF FilesBounded, Within
  <1>7. Rotating' /\ Dangling' /\ NothingLost' /\ Stopped'
    BY <1>1 DEF Rotating, Dangling, NothingLost, Stopped, Holding
  <1>8. RoomForALine'
    <2>1. file'.size <= RotateSize + lives * MaxLine
      BY <1>2, <1>5 DEF FilesBounded, TypeOK
    <2> QED
      BY <2>1 DEF RoomForALine, TypeOK
  <1>9. FreshNames'
    BY <1>1, <1>2 DEF FreshNames, Holding, TypeOK
  <1> QED
    BY <1>3, <1>4, <1>6, <1>7, <1>8, <1>9

LEMMA KillKeeps == Inv /\ Kill => Inv'
  <1> SUFFICES ASSUME Inv, Kill PROVE Inv'
    OBVIOUS
  <1> USE DEF Inv, Kill
  <1>1. \A t \in Threads : call'[t].pc = "idle" /\ t # Nobody
    BY LogAssumption DEF Idle
  <1>2. TypeOK'
    BY <1>1 DEF TypeOK, Holding, Calls
  <1>3. FilesBounded'
    BY DEF FilesBounded
  <1> QED
    BY <1>1, <1>2, <1>3
       DEF CounterIsSizePlusLost, NothingLost, Rotating, Dangling, Stopped, RoomForALine, FreshNames

LEMMA TickKeeps == Inv /\ Tick => Inv'
  <1> SUFFICES ASSUME Inv, Tick PROVE Inv'
    OBVIOUS
  <1> USE Bounds DEF Inv, Tick
  <1>1. TypeOK'
    BY DEF TypeOK, Seconds
  <1>2. FreshNames'
    <2>1. now \in Nat /\ now + 1 \in Seconds
      BY DEF TypeOK, Seconds
    <2>2. \A s \in Seconds : archive[s] # NoFile => s <= now + 1
      <3>1. \A s \in Seconds : archive[s] # NoFile => s <= now
        BY DEF FreshNames
      <3> QED
        BY ONLY <2>1, <3>1 DEF Seconds
    <2>3. archive[now + 1] = NoFile
      BY <2>1 DEF FreshNames
    <2>4. \A t \in Threads : call[t].pc = "rename" => call[t].newpath \in Seconds
      BY DEF TypeOK, Calls, Idle
    <2>5. \A t \in Threads : call[t].pc = "rename" =>
             call[t].newpath <= now + 1 /\ archive[call[t].newpath] = NoFile
      <3>1. \A t \in Threads : call[t].pc = "rename" =>
               call[t].newpath <= now /\ archive[call[t].newpath] = NoFile
        BY DEF FreshNames
      <3> QED
        BY ONLY <2>1, <2>4, <3>1 DEF Seconds
    <2> QED
      BY <2>2, <2>3, <2>5 DEF FreshNames
  <1>3. FilesBounded'
    BY DEF FilesBounded
  <1> QED
    BY <1>1, <1>2, <1>3
       DEF CounterIsSizePlusLost, NothingLost, Rotating, Dangling, Stopped, RoomForALine

(* Asking for the mutex, getting it, giving it back.                        *)
LEMMA CallKeeps == ASSUME Inv, NEW t \in Threads, LogCall(t) PROVE Inv'
  <1> USE Bounds DEF Inv, LogCall
  <1>1. PICK len \in Lengths : call' = [call EXCEPT ![t] = Stage("lock", len, 0)]
    OBVIOUS
  <1>2. 0 \in Seconds
    BY DEF Seconds
  <1>3. /\ call' \in [Threads -> Calls]
        /\ call'[t].pc = "lock" /\ call[t].pc = "idle"
        /\ \A u \in Threads : u # t => call'[u] = call[u]
    <2>1. TypeOK /\ "lock" \in {"lock"} \cup Holding /\ call[t].pc = "idle"
      BY DEF Idle
    <2> QED
      BY ONLY <1>1, <1>2, <2>1, Moves
  <1>4. TypeOK'
    BY <1>3 DEF TypeOK, Holding
  <1>5. Rotating' /\ Dangling' /\ FreshNames'
    BY <1>3 DEF Rotating, Dangling, FreshNames
  <1>6. RoomForALine'
    BY <1>3 DEF RoomForALine
  <1> QED
    BY <1>4, <1>5, <1>6 DEF CounterIsSizePlusLost, NothingLost, FilesBounded, Stopped

LEMMA LockKeeps == ASSUME Inv, NEW t \in Threads, LogLock(t) PROVE Inv'
  <1> USE Bounds DEF Inv, LogLock, Goto
  <1>1. call[t].len \in Lengths /\ call[t].newpath \in Seconds /\ running
    BY DEF TypeOK, Calls, Idle, Stopped
  <1>2. /\ call' \in [Threads -> Calls]
        /\ call'[t].pc = "write"
        /\ \A u \in Threads : u # t => call'[u] = call[u]
    BY <1>1, Moves DEF Holding
  <1>3. TypeOK'
    BY <1>2, LogAssumption DEF TypeOK, Holding
  <1>4. Rotating' /\ Dangling' /\ FreshNames'
    BY <1>2 DEF Rotating, Dangling, FreshNames
  <1>5. RoomForALine'
    BY <1>2 DEF RoomForALine
  <1> QED
    BY <1>1, <1>3, <1>4, <1>5 DEF CounterIsSizePlusLost, NothingLost, FilesBounded, Stopped

LEMMA UnlockKeeps == ASSUME Inv, NEW t \in Threads, LogUnlock(t) PROVE Inv'
  <1> USE Bounds DEF Inv, LogUnlock
  <1>1. /\ call' \in [Threads -> Calls]
        /\ call'[t].pc = "idle"
        /\ \A u \in Threads : u # t => call'[u] = call[u] /\ call[u].pc \notin Holding
    BY Exclusive DEF TypeOK, Calls, Idle, Holding
  <1>2. TypeOK'
    BY <1>1, LogAssumption DEF TypeOK, Holding
  <1>3. Rotating' /\ Dangling' /\ FreshNames'
    BY <1>1 DEF Rotating, Dangling, FreshNames
  <1>4. RoomForALine'
    BY <1>1 DEF RoomForALine
  <1> QED
    BY <1>2, <1>3, <1>4 DEF CounterIsSizePlusLost, NothingLost, FilesBounded, Stopped

(* Writing a line.                                                          *)
LEMMA WriteKeeps == ASSUME Inv, NEW t \in Threads, LogWrite(t) PROVE Inv'
  <1> DEFINE len == call[t].len
             next == IF TooLong(w_curr + len) THEN "close" ELSE "unlock"
  <1> USE Bounds DEF Inv, LogWrite, Goto
  <1>1. /\ len \in Lengths /\ len \in Nat /\ len <= MaxLine /\ call[t].newpath \in Seconds
        /\ mutex = t /\ running
        /\ \A u \in Threads : u # t => call[u].pc \notin Holding
    BY Exclusive DEF Holding, Lengths
  <1>2. /\ call' \in [Threads -> Calls]
        /\ call'[t].pc = next
        /\ \A u \in Threads : u # t => call'[u] = call[u]
    BY <1>1, Moves DEF Holding
  <1>3. file # NoFile /\ file \in Files /\ file.size \in Nat /\ lost \in Nat
        /\ w_curr = file.size + lost
    BY DEF CounterIsSizePlusLost, TypeOK, Files
  <1>4. PICK n \in 0..len : file' = Written(t, n) /\ lost' = lost + (len - n)
    OBVIOUS
  <1>12. /\ file' \in Files /\ file' # NoFile
         /\ file'.size = file.size + n
    <2>1. CASE n = 0
      BY <1>3, <1>4, <2>1 DEF Written
    <2>2. CASE n # 0
      <3> DEFINE line == Line(t, n = len)
      <3>1. file.lines \in Seq(Lines) /\ n \in Nat
        BY <1>3 DEF Files
      <3>2. line \in Lines
        BY DEF Line, Lines, TypeOK
      <3> HIDE DEF line
      <3>3. Append(file.lines, line) \in Seq(Lines) /\ file.size + n \in Nat
        BY <1>3, <3>1, <3>2
      <3> USE DEF line
      <3>4. file' = [lines |-> Append(file.lines, line), size |-> file.size + n]
        BY <1>4, <2>2 DEF Written
      <3> HIDE DEF line
      <3>5. file' \in Files
        BY ONLY <3>3, <3>4 DEF Files
      <3>6. file'.size = file.size + n
        BY ONLY <3>4
      <3> QED
        BY ONLY <3>5, <3>6, Bounds
    <2> QED
      BY <2>1, <2>2
  <1>13. lost' \in Nat /\ n \in Nat /\ w_curr' = w_curr + len /\ w_curr' = file'.size + lost'
    BY <1>1, <1>3, <1>4, <1>12
  <1> HIDE DEF len, next
  <1>5. TypeOK'
    <2>1. file' \in Files \cup {NoFile} /\ w_curr' \in Nat /\ lost' \in Nat
      <3>1. w_curr \in Nat
        BY DEF TypeOK
      <3> QED
        BY ONLY <1>1, <1>12, <1>13, <3>1
    <2>2. sent' \in Nat /\ sent' <= MaxRate
      BY <1>1 DEF TypeOK, len
    <2>3. \A u \in Threads : mutex' = u <=> call'[u].pc \in Holding
      BY <1>1, <1>2 DEF TypeOK, Holding, next
    <2> QED
      BY <1>2, <2>1, <2>2, <2>3 DEF TypeOK
  <1>6. lives >= 1 /\ w_curr <= RotateSize + (lives - 1) * MaxLine
    BY <1>1 DEF RoomForALine, Holding
  <1>7. /\ (lives - 1) * MaxLine \in Nat
        /\ lives * MaxLine = (lives - 1) * MaxLine + MaxLine
    BY <1>6 DEF TypeOK
  <1>8. FilesBounded'
    <2>1. Within(file)'
      <3>1. w_curr \in Nat /\ file'.size <= w_curr + len /\ lives' = lives /\ file'.size \in Nat
        <4>1. w_curr \in Nat /\ lives' = lives
          BY DEF TypeOK
        <4>2. n <= len
          BY <1>4
        <4> QED
          BY ONLY <1>1, <1>3, <1>12, <1>13, <4>1, <4>2
      <3>2. file'.size <= RotateSize + lives * MaxLine
        BY ONLY <1>1, <1>6, <1>7, <3>1, Bounds
      <3> QED
        BY ONLY <3>1, <3>2 DEF Within
    <2>2. \A s \in Seconds : Within(archive[s])'
      BY EachFile DEF Within
    <2> QED
      BY <2>1, <2>2 DEF FilesBounded, Within
  <1>9. Rotating' /\ Dangling'
    BY <1>1, <1>2, <1>12, <1>13 DEF Rotating, Dangling, Holding, TooLong, len, next
  <1>10. RoomForALine'
    <2>1. call'[t].pc # "close" => w_curr' <= RotateSize
      <3>1. w_curr' = w_curr + len /\ w_curr' \in Nat
        BY <1>5 DEF len, TypeOK
      <3>2. call'[t].pc = IF TooLong(w_curr + len) THEN "close" ELSE "unlock"
        BY <1>2 DEF next
      <3> QED
        BY ONLY <3>1, <3>2, Bounds DEF TooLong
    <2>2. w_curr' <= RotateSize => w_curr' <= RotateSize + (lives - 1) * MaxLine
      BY <1>5, <1>7 DEF TypeOK
    <2> QED
      BY <1>6, <2>1, <2>2 DEF RoomForALine
  <1>11. FreshNames'
    <2>1. archive[now] # NoFile => file'.size <= sent' /\ w_curr' <= sent'
      <3>1. sent' = sent + len /\ sent \in Nat /\ w_curr \in Nat
        BY DEF TypeOK, len
      <3>2. archive[now] # NoFile => file.size <= sent /\ w_curr <= sent
        BY <1>1, <1>3 DEF FreshNames
      <3> QED
        BY ONLY <1>1, <1>3, <1>4, <1>12, <1>13, <3>1, <3>2
    <2>2. \A u \in Threads : call'[u].pc # "rename"
      BY <1>1, <1>2 DEF Holding, next
    <2> QED
      BY <2>1, <2>2 DEF FreshNames
  <1>14. CounterIsSizePlusLost' /\ NothingLost' /\ Stopped'
    BY <1>1, <1>12, <1>13 DEF CounterIsSizePlusLost, NothingLost, Stopped
  <1> QED
    BY <1>5, <1>8, <1>9, <1>10, <1>11, <1>14

LEMMA LostKeeps == ASSUME Inv, NEW t \in Threads, LogLost(t) PROVE Inv'
  <1> DEFINE len == call[t].len
             next == IF TooLong(w_curr + len) THEN "close" ELSE "unlock"
  <1> USE Bounds DEF Inv, LogLost, Goto
  <1>1. /\ len \in Lengths /\ len \in Nat /\ call[t].newpath \in Seconds
        /\ mutex = t /\ running
        /\ \A u \in Threads : u # t => call[u].pc \notin Holding
    BY Exclusive DEF Holding, Lengths
  <1>2. /\ call' \in [Threads -> Calls]
        /\ call'[t].pc = next
        /\ \A u \in Threads : u # t => call'[u] = call[u]
    BY <1>1, Moves DEF Holding
  <1>3. file # NoFile /\ w_curr > RotateSize /\ w_curr' > RotateSize
    BY <1>1 DEF Dangling, Holding, TypeOK
  <1>4. TypeOK'
    BY <1>1, <1>2 DEF TypeOK, Holding
  <1>5. Rotating' /\ Dangling'
    BY <1>2, <1>3 DEF Rotating, Dangling
  <1>6. archive[now] = NoFile
    BY <1>1, <1>3 DEF FreshNames, TypeOK
  <1>7. FreshNames'
    BY <1>2, <1>6 DEF FreshNames
  <1> QED
    BY <1>1, <1>4, <1>5, <1>7 DEF CounterIsSizePlusLost, NothingLost, FilesBounded, Stopped, RoomForALine

(* Rotating: closing the file, naming it, renaming it, opening a new one.   *)
LEMMA StepOf ==
    ASSUME Inv, NEW t \in Threads, call[t].pc \in Holding,
           NEW pc \in Holding, NEW s \in Seconds,
           call' = [call EXCEPT ![t] = Stage(pc, call[t].len, s)]
    PROVE  /\ call' \in [Threads -> Calls]
           /\ call'[t].pc = pc /\ call'[t].newpath = s
           /\ \A u \in Threads : u # t =>
                 call'[u] = call[u] /\ call[u].pc \notin Holding
           /\ mutex = t /\ running
           /\ call[t].newpath \in Seconds
           /\ \A u \in Threads : mutex = u <=> call'[u].pc \in Holding
  <1>1. TypeOK
    BY DEF Inv
  <1>2. /\ mutex = t
        /\ \A u \in Threads : u # t => call[u].pc \notin Holding
        /\ call[t].len \in Lengths /\ call[t].newpath \in Seconds
    BY <1>1, Exclusive
  <1>3. running
    BY <1>2, LogAssumption DEF Inv, Stopped
  <1>4. pc \in {"lock"} \cup Holding
    OBVIOUS
  <1>5. /\ call' \in [Threads -> Calls]
        /\ call'[t].pc = pc /\ call'[t].newpath = s
        /\ \A u \in Threads : u # t => call'[u] = call[u]
    BY ONLY <1>1, <1>2, <1>4, Moves, pc \in Holding, s \in Seconds, t \in Threads,
       call' = [call EXCEPT ![t] = Stage(pc, call[t].len, s)]
  <1> QED
    BY <1>2, <1>3, <1>5

LEMMA CloseKeeps == ASSUME Inv, NEW t \in Threads, RotateClose(t) PROVE Inv'
  <1> USE DEF Inv, RotateClose, Goto
  <1>1. "close" \in Holding /\ "name" \in Holding /\ call[t].newpath \in Seconds
    BY Exclusive DEF Holding
  <1>2. /\ call' \in [Threads -> Calls] /\ call'[t].pc = "name"
        /\ \A u \in Threads : u # t => call'[u] = call[u] /\ call[u].pc \notin Holding
        /\ \A u \in Threads : mutex = u <=> call'[u].pc \in Holding
        /\ running
    BY <1>1, StepOf
  <1>3. TypeOK'
    BY <1>2 DEF TypeOK
  <1>4. Rotating' /\ Dangling'
    BY <1>2 DEF Rotating, Dangling, Holding
  <1>5. FreshNames'
    BY <1>2 DEF FreshNames
  <1>6. FilesBounded'
    BY DEF FilesBounded
  <1> QED
    BY <1>2, <1>3, <1>4, <1>5, <1>6 DEF CounterIsSizePlusLost, NothingLost, Stopped, RoomForALine

(* The name is free: more is counted than is logged in a second.           *)
LEMMA NameKeeps == ASSUME Inv, NEW t \in Threads, RotateName(t) PROVE Inv'
  <1> USE DEF Inv, RotateName
  <1>1. "rename" \in Holding /\ "name" \in Holding /\ now \in Seconds /\ now \in Nat
    BY DEF Holding, TypeOK, Seconds
  <1>2. /\ call' \in [Threads -> Calls]
        /\ call'[t].pc = "rename" /\ call'[t].newpath = now
        /\ \A u \in Threads : u # t => call'[u] = call[u] /\ call[u].pc \notin Holding
        /\ \A u \in Threads : mutex = u <=> call'[u].pc \in Holding
        /\ running
    BY <1>1, StepOf
  <1>3. TypeOK'
    BY <1>2 DEF TypeOK
  <1>4. Rotating' /\ Dangling'
    BY <1>2 DEF Rotating, Dangling, Holding
  <1>5. archive[now] = NoFile
    <2>1. file # NoFile /\ w_curr > RotateSize
      BY DEF Rotating
    <2>2. w_curr \in Nat /\ sent \in Nat /\ sent <= RotateSize
      BY <2>1, Bounds DEF TypeOK
    <2> QED
      BY <1>2, <2>1, <2>2, Bounds DEF FreshNames
  <1>6. FreshNames'
    BY <1>1, <1>2, <1>5 DEF FreshNames, Holding
  <1>7. FilesBounded'
    BY DEF FilesBounded
  <1> QED
    BY <1>2, <1>3, <1>4, <1>6, <1>7 DEF CounterIsSizePlusLost, NothingLost, Stopped, RoomForALine

LEMMA RenameKeeps == ASSUME Inv, NEW t \in Threads, RotateRename(t) PROVE Inv'
  <1> USE DEF Inv, RotateRename, Goto
  <1>1. /\ "rename" \in Holding /\ "reopen" \in Holding
        /\ call[t].newpath \in Seconds
    BY Exclusive DEF Holding
  <1>2. /\ call' \in [Threads -> Calls] /\ call'[t].pc = "reopen"
        /\ \A u \in Threads : u # t => call'[u] = call[u] /\ call[u].pc \notin Holding
        /\ \A u \in Threads : mutex = u <=> call'[u].pc \in Holding
        /\ running
    BY <1>1, StepOf
  <1>3. TypeOK'
    BY <1>1, <1>2 DEF TypeOK
  <1>4. fp = "closed"
    BY DEF Rotating
  <1>5. Rotating' /\ Dangling'
    BY <1>2, <1>4 DEF Rotating, Dangling, Holding
  <1>6. FreshNames'
    BY <1>1, <1>2 DEF FreshNames, Holding, TypeOK
  <1>7. FilesBounded'
    <2>1. Within(file)'
      BY DEF Within
    <2>2. \A s \in Seconds : archive'[s] = file \/ archive'[s] = archive[s]
      BY DEF TypeOK
    <2>3. Within(file) /\ \A s \in Seconds : Within(archive[s])
      BY EachFile
    <2>4. \A s \in Seconds : Within(archive[s])'
      BY <2>2, <2>3 DEF Within
    <2> QED
      BY <2>1, <2>4 DEF FilesBounded, Within
  <1> QED
    BY <1>2, <1>3, <1>4, <1>5, <1>6, <1>7 DEF CounterIsSizePlusLost, NothingLost, Stopped, RoomForALine

LEMMA RenameFailsKeeps == ASSUME Inv, NEW t \in Threads, RotateRenameFails(t) PROVE Inv'
  <1> USE DEF Inv, RotateRenameFails, Goto
  <1>1. /\ "rename" \in Holding /\ "unlock" \in Holding
        /\ call[t].newpath \in Seconds
    BY Exclusive DEF Holding
  <1>2. /\ call' \in [Threads -> Calls] /\ call'[t].pc = "unlock"
        /\ \A u \in Threads : u # t => call'[u] = call[u] /\ call[u].pc \notin Holding
        /\ \A u \in Threads : mutex = u <=> call'[u].pc \in Holding
        /\ running
    BY <1>1, StepOf
  <1>3. TypeOK'
    BY <1>2 DEF TypeOK
  <1>4. file # NoFile /\ w_curr > RotateSize /\ fp = "closed"
    BY DEF Rotating
  <1>5. Rotating' /\ Dangling' /\ FreshNames'
    BY <1>2, <1>4 DEF Rotating, Dangling, FreshNames, Holding
  <1>6. FilesBounded'
    BY DEF FilesBounded
  <1> QED
    BY <1>2, <1>3, <1>4, <1>5, <1>6 DEF CounterIsSizePlusLost, NothingLost, Stopped, RoomForALine

LEMMA ReopenKeeps == ASSUME Inv, NEW t \in Threads, RotateReopen(t) PROVE Inv'
  <1> USE DEF Inv, RotateReopen, Goto
  <1>1. /\ "reopen" \in Holding /\ "unlock" \in Holding
        /\ call[t].newpath \in Seconds
    BY Exclusive DEF Holding
  <1>2. /\ call' \in [Threads -> Calls] /\ call'[t].pc = "unlock"
        /\ \A u \in Threads : u # t => call'[u] = call[u] /\ call[u].pc \notin Holding
        /\ \A u \in Threads : mutex = u <=> call'[u].pc \in Holding
        /\ running
    BY <1>1, StepOf
  <1>3. file' = EmptyFile /\ file' # NoFile /\ file'.size = 0 /\ file' \in Files
    BY Bounds DEF Rotating, EmptyFile
  <1>4. TypeOK'
    BY <1>2, <1>3 DEF TypeOK
  <1>5. lives >= 1 /\ lives - 1 \in Nat
    BY <1>2 DEF RoomForALine, TypeOK
  <1>6. (lives - 1) * MaxLine \in Nat /\ lives * MaxLine \in Nat
    BY <1>5, Bounds DEF TypeOK
  <1>7. Rotating' /\ Dangling'
    BY <1>2, <1>3 DEF Rotating, Dangling, Holding
  <1>8. FreshNames'
    BY <1>2, <1>3 DEF FreshNames, Holding, TypeOK
  <1>9. FilesBounded'
    <2>1. Within(file)'
      BY <1>3, <1>6, Bounds DEF Within
    <2>2. \A s \in Seconds : Within(archive[s])'
      BY EachFile DEF Within
    <2> QED
      BY <2>1, <2>2 DEF FilesBounded, Within
  <1>10. RoomForALine'
    BY <1>5, <1>6, Bounds DEF RoomForALine
  <1>11. CounterIsSizePlusLost' /\ NothingLost'
    <2>1. lost = 0
      BY DEF Rotating, NothingLost
    <2> QED
      BY <1>3, <2>1 DEF CounterIsSizePlusLost, NothingLost
  <1> QED
    BY <1>2, <1>4, <1>7, <1>8, <1>9, <1>10, <1>11 DEF Stopped

LEMMA ReopenFailsKeeps == ASSUME Inv, NEW t \in Threads, RotateReopenFails(t) PROVE Inv'
  <1> USE DEF Inv, RotateReopenFails, Goto
  <1>1. /\ "reopen" \in Holding /\ "unlock" \in Holding
        /\ call[t].newpath \in Seconds
    BY Exclusive DEF Holding
  <1>2. /\ call' \in [Threads -> Calls] /\ call'[t].pc = "unlock"
        /\ \A u \in Threads : u # t => call'[u] = call[u] /\ call[u].pc \notin Holding
        /\ \A u \in Threads : mutex = u <=> call'[u].pc \in Holding
        /\ running
    BY <1>1, StepOf
  <1>3. TypeOK'
    BY <1>2 DEF TypeOK
  <1>4. Rotating' /\ Dangling' /\ FreshNames'
    BY <1>2 DEF Rotating, Dangling, FreshNames, Holding
  <1>5. FilesBounded'
    BY DEF FilesBounded
  <1>6. CounterIsSizePlusLost' /\ NothingLost' /\ RoomForALine'
    BY DEF Rotating, CounterIsSizePlusLost, NothingLost, RoomForALine
  <1> QED
    BY <1>2, <1>3, <1>4, <1>5, <1>6 DEF Stopped

-----------------------------------------------------------------------------
LEMMA InitInv == Init => Inv
  <1> SUFFICES ASSUME Init PROVE Inv
    OBVIOUS
  <1> USE Bounds DEF Init
  <1>1. 0 \in Seconds /\ \A t \in Threads : call[t].pc = "idle" /\ t # Nobody
    BY LogAssumption DEF Seconds, Idle
  <1>2. TypeOK
    <2>1. call \in [Threads -> Calls]
      BY DEF Calls
    <2>2. \A t \in Threads : mutex = t <=> call[t].pc \in Holding
      BY <1>1 DEF Holding
    <2>3. archive \in [Seconds -> Files \cup {NoFile}] /\ count \in [Threads -> Nat]
      OBVIOUS
    <2>4. now \in Seconds /\ sent \in Nat /\ sent <= MaxRate
      BY <1>1
    <2>5. /\ file \in Files \cup {NoFile} /\ fp \in {"open", "closed", "null"}
          /\ w_curr \in Nat /\ lost \in Nat /\ mutex \in Threads \cup {Nobody}
          /\ lives \in Nat /\ running \in BOOLEAN
      OBVIOUS
    <2> QED
      BY ONLY <2>1, <2>2, <2>3, <2>4, <2>5 DEF TypeOK
  <1>3. FilesBounded
    BY DEF FilesBounded
  <1>4. Stopped /\ RoomForALine /\ CounterIsSizePlusLost /\ NothingLost
    BY DEF Stopped, RoomForALine, CounterIsSizePlusLost, NothingLost
  <1> QED
    BY <1>1, <1>2, <1>3, <1>4 DEF Inv, Rotating, Dangling, FreshNames

LEMMA NextKeeps == Inv /\ [Next]_vars => Inv'
  <1> SUFFICES ASSUME Inv, [Next]_vars PROVE Inv'
    OBVIOUS
  <1>1. CASE Start
    BY <1>1, StartKeeps
  <1>2. CASE Kill
    BY <1>2, KillKeeps
  <1>3. CASE Tick
    BY <1>3, TickKeeps
  <1>4. ASSUME NEW t \in Threads, Log(t) PROVE Inv'
    BY <1>4, CallKeeps, LockKeeps, WriteKeeps, LostKeeps, CloseKeeps, NameKeeps,
       RenameKeeps, RenameFailsKeeps, ReopenKeeps, ReopenFailsKeeps, UnlockKeeps
       DEF Log
  <1>5. CASE UNCHANGED vars
    BY <1>5 DEF vars, Inv, TypeOK, CounterIsSizePlusLost, FilesBounded, Rotating,
                Dangling, NothingLost, Stopped, RoomForALine, FreshNames
  <1> QED
    BY <1>1, <1>2, <1>3, <1>4, <1>5 DEF Next

LEMMA Invariance == Spec => []Inv
  BY InitInv, NextKeeps, PTL DEF Spec

(* The types hold, and a thread of logv holds the mutex exactly from lock   *)
(* to unlock, whatever happens to the rotation in between.                  *)
THEOREM TypeCorrect == Spec => []TypeOK
  <1>1. Inv => TypeOK
    BY DEF Inv
  <1> QED
    BY <1>1, Invariance, PTL

(* stats.w_curr is at every moment the size of the open file and what       *)
(* failing writes (log.cpp:275-278) have lost of it: through restarts on a  *)
(* file of any size, rotations and rotations that failed.                   *)
THEOREM CounterCorrect == Spec => []CounterIsSizePlusLost
  <1>1. Inv => CounterIsSizePlusLost
    BY DEF Inv
  <1> QED
    BY <1>1, Invariance, PTL

(* No file outgrows rotate_size_ by more than one line per start of the     *)
(* process.                                                                 *)
THEOREM FilesStayBounded == Spec => []FilesBounded
  <1>1. Inv => FilesBounded
    BY DEF Inv
  <1> QED
    BY <1>1, Invariance, PTL

(* A rotation never replaces the file of an earlier one, as long as no      *)
(* second sees more than rotate_size_ bytes.                                *)
THEOREM NoArchiveLost == Spec => ArchivesKept
  <1> DEFINE Kept == \A s \in Seconds : archive[s] # NoFile => archive'[s] = archive[s]
  <1>1. Inv /\ [Next]_vars => [Kept]_vars
    <2> SUFFICES ASSUME Inv, Next PROVE Kept
      OBVIOUS
    <2>1. ASSUME NEW t \in Threads, RotateRename(t) PROVE Kept
      <3>1. archive[call[t].newpath] = NoFile
        BY <2>1 DEF Inv, FreshNames, RotateRename
      <3> QED
        BY <2>1, <3>1 DEF Inv, TypeOK, RotateRename
    <2>2. CASE UNCHANGED archive
      BY <2>2
    <2> QED
      BY <2>1, <2>2 DEF Next, Start, Kill, Tick, Log, LogCall, LogLock, LogWrite, LogLost,
         RotateClose, RotateName, RotateRenameFails, RotateReopen, RotateReopenFails, LogUnlock
  <1> QED
    BY <1>1, Invariance, PTL DEF Spec, ArchivesKept

-----------------------------------------------------------------------------
(* The log as one sequence.  Archived is defined by recursion over the      *)
(* seconds; the facts about it rest on induction over the natural numbers,  *)
(* in the form of a set that is closed under successors.                    *)
LEMMA NatSetInduction ==
    ASSUME NEW S, 0 \in S, \A k \in Nat : k \in S => k + 1 \in S
    PROVE  Nat \subseteq S
  <1> DEFINE T == Nat \ S
             R == OpToRel(<, Nat)
  <1>1. SUFFICES ASSUME T # {} PROVE FALSE
    OBVIOUS
  <1>2. \A x, y \in Nat : x < y => <<x, y>> \in R
    BY DEF OpToRel
  <1>3. PICK m \in T : \A y \in T : ~(<<y, m>> \in R)
    <2> HIDE DEF R
    <2>1. IsWellFoundedOn(R, Nat)
      BY NatLessThanWellFounded DEF R
    <2> HIDE DEF T
    <2>2. T \subseteq Nat
      BY DEF T
    <2> QED
      BY <1>1, <2>1, <2>2, WFMin
  <1>4. m \in Nat /\ m # 0 /\ m - 1 \in Nat /\ m - 1 < m
    OBVIOUS
  <1>5. m - 1 \notin T
    <2> HIDE DEF R, T
    <2> QED
      BY <1>2, <1>3, <1>4
  <1>6. m - 1 + 1 = m
    BY <1>4
  <1> QED
    BY <1>4, <1>5, <1>6

(* f holds, for each of the seconds up to n, what is archived up to it.     *)
IsArchive(f, a, n) ==
    f = [s \in -1..n |-> IF s = -1 THEN <<>> ELSE f[s - 1] \o Content(a[s])]

LEMMA ArchiveExists ==
    ASSUME NEW a, NEW n \in Nat
    PROVE  \E f : IsArchive(f, a, n)
  <1>0. n + 1 \in Nat /\ n + 1 - 1 = n
    OBVIOUS
  <1> DEFINE P(k) == \E f : IsArchive(f, a, k - 1)
             S == {k \in Nat : P(k)}
             C(s) == Content(a[s])
  <1>1. P(0)
    <2> DEFINE f == [s \in -1..-1 |-> <<>>]
    <2>1. f = [s \in -1..-1 |-> IF s = -1 THEN <<>> ELSE f[s - 1] \o C(s)]
      OBVIOUS
    <2> HIDE DEF f
    <2>2. 0 - 1 = -1
      OBVIOUS
    <2> QED
      BY <2>1, <2>2 DEF IsArchive
  <1>2. ASSUME NEW k \in Nat, P(k) PROVE P(k + 1)
    <2>1. PICK f : f = [s \in -1..k-1 |-> IF s = -1 THEN <<>> ELSE f[s - 1] \o C(s)]
      BY <1>2 DEF IsArchive
    <2> HIDE DEF C
    <2> DEFINE g == [s \in -1..k |-> IF s = k THEN f[k - 1] \o C(k) ELSE f[s]]
               r == [s \in -1..k |-> IF s = -1 THEN <<>> ELSE g[s - 1] \o C(s)]
    <2>2. \A s \in -1..k : g[s] = IF s = k THEN f[k - 1] \o C(k) ELSE f[s]
      OBVIOUS
    <2>3. DOMAIN g = -1..k /\ g = [s \in DOMAIN g |-> g[s]]
      OBVIOUS
    <2> HIDE DEF g
    <2>4. \A s \in -1..k-1 : s \in -1..k /\ g[s] = f[s]
      BY <2>2
    <2>5. ASSUME NEW s \in -1..k
          PROVE  g[s] = IF s = -1 THEN <<>> ELSE g[s - 1] \o C(s)
      <3>1. CASE s = k
        <4>1. s # -1 /\ s - 1 = k - 1 /\ k - 1 \in -1..k-1
          BY <3>1
        <4> QED
          BY <2>2, <2>4, <3>1, <4>1
      <3>2. CASE s = -1
        <4>1. -1 \in -1..k-1
          OBVIOUS
        <4> QED
          BY <2>1, <2>4, <3>2, <4>1
      <3>3. CASE s # k /\ s # -1
        <4>1. s \in -1..k-1 /\ s - 1 \in -1..k-1
          BY <3>3
        <4>2. f[s] = f[s - 1] \o C(s)
          BY <2>1, <3>3, <4>1
        <4> QED
          BY <2>4, <3>3, <4>1, <4>2
      <3> QED
        BY <3>1, <3>2, <3>3
    <2>6. g = r
      BY <2>3, <2>5
    <2>7. IsArchive(g, a, k)
      BY <2>6 DEF IsArchive, C
    <2>8. k + 1 - 1 = k
      OBVIOUS
    <2> HIDE DEF IsArchive
    <2> QED
      BY <2>7, <2>8
  <1>3. n + 1 \in S
    <2> HIDE DEF P
    <2>1. 0 \in S /\ \A k \in Nat : k \in S => k + 1 \in S
      BY <1>1, <1>2
    <2> HIDE DEF S
    <2> QED
      BY <1>0, <2>1, NatSetInduction
  <1> QED
    BY <1>0, <1>3

(* What the archives a hold up to each second.                              *)
ArchiveOf(a) == CHOOSE f : IsArchive(f, a, MaxTime)

FileByFile(f, a) ==
    /\ f[-1] = <<>>
    /\ \A s \in Seconds : f[s] = f[s - 1] \o Content(a[s])

LEMMA ArchiveIs == ASSUME NEW a PROVE FileByFile(ArchiveOf(a), a)
  <1> DEFINE f == ArchiveOf(a)
             C(s) == Content(a[s])
  <1>1. MaxTime \in Nat
    BY Bounds
  <1>2. IsArchive(f, a, MaxTime)
    BY <1>1, ArchiveExists, Zenon DEF ArchiveOf
  <1> HIDE DEF f
  <1>3. f = [s \in -1..MaxTime |-> IF s = -1 THEN <<>> ELSE f[s - 1] \o C(s)]
    BY <1>2 DEF IsArchive
  <1> HIDE DEF C
  <1>4. f[-1] = <<>>
    <2>1. -1 \in -1..MaxTime
      BY <1>1
    <2> QED
      BY <1>3, <2>1
  <1>5. ASSUME NEW s \in Seconds PROVE f[s] = f[s - 1] \o C(s)
    <2>1. s \in -1..MaxTime /\ s # -1
      BY <1>1 DEF Seconds
    <2> QED
      BY <1>3, <2>1
  <1> QED
    BY <1>4, <1>5 DEF FileByFile, f, C

LEMMA ArchivedIs == Archived = ArchiveOf(archive) /\ Archived' = ArchiveOf(archive')
  BY DEF Archived, ArchiveOf, IsArchive

(* Every archive of a is a file or none.                                    *)
Archives == [Seconds -> Files \cup {NoFile}]

LEMMA ContentType ==
    ASSUME NEW f \in Files \cup {NoFile}
    PROVE  Content(f) \in Seq(Lines) /\ (f # NoFile => Content(f) = f.lines)
  BY DEF Content, Files

LEMMA ArchiveType ==
    ASSUME NEW a \in Archives
    PROVE  ArchiveOf(a)[MaxTime] \in Seq(Lines)
  <1> DEFINE f == ArchiveOf(a)
             P(k) == k <= MaxTime + 1 => f[k - 1] \in Seq(Lines)
             S == {k \in Nat : P(k)}
  <1>1. MaxTime \in Nat /\ MaxTime + 1 \in Nat /\ MaxTime + 1 - 1 = MaxTime
    BY Bounds
  <1>2. FileByFile(f, a)
    BY ArchiveIs
  <1> HIDE DEF f
  <1>3. P(0)
    <2>1. 0 - 1 = -1 /\ <<>> \in Seq(Lines)
      OBVIOUS
    <2> QED
      BY <1>2, <2>1 DEF FileByFile
  <1>4. ASSUME NEW k \in Nat, P(k) PROVE P(k + 1)
    <2>1. SUFFICES ASSUME k + 1 <= MaxTime + 1 PROVE f[k] \in Seq(Lines)
      <3>1. k + 1 - 1 = k
        OBVIOUS
      <3> QED
        BY <3>1
    <2>2. k \in Seconds /\ k <= MaxTime + 1
      BY <1>1, <2>1 DEF Seconds
    <2>3. f[k] = f[k - 1] \o Content(a[k]) /\ f[k - 1] \in Seq(Lines)
      BY <1>2, <1>4, <2>2 DEF FileByFile
    <2>4. Content(a[k]) \in Seq(Lines)
      BY <2>2, ContentType DEF Archives
    <2> QED
      BY <2>3, <2>4
  <1>5. MaxTime + 1 \in S
    <2> HIDE DEF P
    <2>1. 0 \in S /\ \A k \in Nat : k \in S => k + 1 \in S
      BY <1>3, <1>4
    <2> HIDE DEF S
    <2> QED
      BY <1>1, <2>1, NatSetInduction
  <1> QED
    BY <1>1, <1>5 DEF f

(* Archiving one more file, later than all others, appends its lines.       *)
LEMMA ArchiveGrows ==
    ASSUME NEW a \in Archives, NEW n \in Seconds, NEW file1 \in Files,
           a[n] = NoFile, \A s \in Seconds : a[s] # NoFile => s < n,
           NEW b, b = [a EXCEPT ![n] = file1]
    PROVE  ArchiveOf(b)[MaxTime] = ArchiveOf(a)[MaxTime] \o file1.lines
  <1> DEFINE f == ArchiveOf(a)
             g == ArchiveOf(b)
             P(k) == k <= MaxTime + 1 =>
                       /\ f[k - 1] \in Seq(Lines)
                       /\ g[k - 1] = IF k - 1 < n THEN f[k - 1] ELSE f[k - 1] \o file1.lines
             S == {k \in Nat : P(k)}
  <1>1. MaxTime \in Nat /\ MaxTime + 1 \in Nat /\ MaxTime + 1 - 1 = MaxTime
        /\ n \in Nat /\ n <= MaxTime
    BY Bounds DEF Seconds
  <1>2. FileByFile(f, a) /\ FileByFile(g, b)
    BY ArchiveIs
  <1> HIDE DEF f, g
  <1>3. P(0)
    <2>1. 0 - 1 = -1 /\ <<>> \in Seq(Lines) /\ -1 < n
      BY <1>1
    <2> QED
      BY <1>2, <2>1 DEF FileByFile
  <1>4. ASSUME NEW k \in Nat, P(k) PROVE P(k + 1)
    <2> DEFINE Q == /\ f[k] \in Seq(Lines)
                    /\ g[k] = IF k < n THEN f[k] ELSE f[k] \o file1.lines
    <2>1. SUFFICES ASSUME k + 1 <= MaxTime + 1 PROVE Q
      <3>1. k + 1 - 1 = k
        OBVIOUS
      <3> QED
        BY <3>1
    <2>2. k \in Seconds /\ k <= MaxTime + 1
      BY <1>1, <2>1 DEF Seconds
    <2>3. f[k] = f[k - 1] \o Content(a[k]) /\ g[k] = g[k - 1] \o Content(b[k])
      BY <1>2, <2>2 DEF FileByFile
    <2>4. /\ f[k - 1] \in Seq(Lines)
          /\ g[k - 1] = IF k - 1 < n THEN f[k - 1] ELSE f[k - 1] \o file1.lines
      BY <1>4, <2>2
    <2>5. Content(a[k]) \in Seq(Lines) /\ file1.lines \in Seq(Lines)
      BY <2>2, ContentType DEF Archives, Files
    <2>6. f[k] \in Seq(Lines)
      BY <2>3, <2>4, <2>5
    <2>7. CASE k < n
      <3>1. b[k] = a[k] /\ k - 1 < n
        BY <1>1, <2>2, <2>7 DEF Archives
      <3> QED
        BY <2>3, <2>4, <2>6, <2>7, <3>1
    <2>8. CASE k = n
      <3>1. b[k] = file1 /\ a[k] = NoFile /\ file1 # NoFile /\ k - 1 < n /\ ~(k < n)
        BY <1>1, <2>2, <2>8, Bounds DEF Archives
      <3>2. Content(a[k]) = <<>> /\ Content(b[k]) = file1.lines
        BY <3>1 DEF Content
      <3>3. f[k] = f[k - 1]
        BY <2>3, <2>4, <3>2
      <3> QED
        BY <2>3, <2>4, <2>6, <3>1, <3>2, <3>3
    <2>9. CASE n < k
      <3>1. b[k] = a[k] /\ a[k] = NoFile /\ ~(k - 1 < n) /\ ~(k < n)
        BY <1>1, <2>2, <2>9 DEF Archives
      <3>2. Content(a[k]) = <<>> /\ Content(b[k]) = <<>>
        BY <3>1 DEF Content
      <3>3. g[k - 1] = f[k - 1] \o file1.lines
        BY <2>4, <3>1
      <3>6. f[k] = f[k - 1]
        BY <2>3, <2>4, <3>2
      <3>4. f[k - 1] \o file1.lines \in Seq(Lines)
        BY <2>4, <2>5
      <3>5. g[k] = g[k - 1]
        <4>1. g[k] = g[k - 1] \o <<>> /\ g[k - 1] \in Seq(Lines)
          BY <2>3, <3>2, <3>3, <3>4
        <4> QED
          BY ONLY <4>1
      <3> QED
        BY <2>6, <3>1, <3>3, <3>5, <3>6
    <2> QED
      BY <1>1, <2>7, <2>8, <2>9
  <1>5. MaxTime + 1 \in S
    <2> HIDE DEF P
    <2>1. 0 \in S /\ \A k \in Nat : k \in S => k + 1 \in S
      BY <1>3, <1>4
    <2> HIDE DEF S
    <2> QED
      BY <1>1, <2>1, NatSetInduction
  <1> DEFINE last == MaxTime + 1
  <1>6. P(last) /\ last <= MaxTime + 1 /\ last - 1 = MaxTime
    BY <1>1, <1>5
  <1> HIDE DEF last
  <1>7. ~(MaxTime < n)
    BY <1>1
  <1>8. g[MaxTime] = f[MaxTime] \o file1.lines
    BY <1>6, <1>7
  <1> QED
    BY <1>8 DEF f, g

-----------------------------------------------------------------------------
(* The log as one sequence, and what holds of its lines: a thread's next    *)
(* line is newer than all of its lines that are there.                      *)
LogLines(a, f) == ArchiveOf(a)[MaxTime] \o Content(f)

Pending(t) == call[t].pc \in {"lock", "write"}

Numbered(line, calls, n) ==
    /\ line.num <= n[line.thread]
    /\ calls[line.thread].pc \in {"lock", "write"} => line.num < n[line.thread]

Logged(log, calls, n) ==
    log \in Seq(Lines) /\ \A i \in 1..Len(log) : Numbered(log[i], calls, n)

Counted == \A t \in Threads : count[t] <= MaxCalls /\ (Pending(t) => count[t] > 0)

(* A rotation has chosen a name later than those of all archives.           *)
NothingLater ==
    \A t \in Threads : call[t].pc = "rename" =>
       \A s \in Seconds : archive[s] # NoFile => s < call[t].newpath

OrderInv == Inv /\ Counted /\ NothingLater /\ Logged(LogLines(archive, file), call, count)

(* How a step moves a thread.                                               *)
Moved(t) ==
    \/ count'[t] = count[t] /\ (Pending(t)' => Pending(t))
    \/ count'[t] = count[t] + 1 /\ count[t] < MaxCalls

LEMMA AllMoved == ASSUME Inv, Next PROVE \A u \in Threads : Moved(u)
  <1> USE DEF Inv, Pending, Moved
  <1>1. CASE Start \/ Tick
    BY <1>1 DEF Start, Tick
  <1>2. CASE Kill
    BY <1>2 DEF Kill, Idle
  <1>3. ASSUME NEW t \in Threads, LogCall(t), NEW u \in Threads PROVE Moved(u)
    <2>1. PICK c : call' = [call EXCEPT ![t] = c]
      BY <1>3 DEF LogCall
    <2>2. count' = [count EXCEPT ![t] = @ + 1] /\ count[t] < MaxCalls
      BY <1>3 DEF LogCall
    <2> QED
      BY <2>1, <2>2 DEF TypeOK
  <1>4. ASSUME NEW t \in Threads, NEW u \in Threads,
               count' = count, NEW c, call' = [call EXCEPT ![t] = c],
               c.pc \in {"lock", "write"} => Pending(t)
        PROVE  Moved(u)
    BY <1>4 DEF TypeOK
  <1>5. ASSUME NEW t \in Threads, Log(t), ~LogCall(t), NEW u \in Threads PROVE Moved(u)
    <2>1. count' = count
      BY <1>5 DEF Log, LogLock, LogWrite, LogLost, RotateClose, RotateName, RotateRename,
         RotateRenameFails, RotateReopen, RotateReopenFails, LogUnlock
    <2>2. CASE LogLock(t)
      BY <2>2, <2>1, <1>4 DEF LogLock, Goto, Stage
    <2>3. CASE LogUnlock(t)
      BY <2>3, <2>1, <1>4 DEF LogUnlock, Idle
    <2>4. CASE LogWrite(t) \/ LogLost(t)
      BY <2>4, <2>1, <1>4 DEF LogWrite, LogLost, Goto, Stage
    <2>5. CASE RotateClose(t) \/ RotateName(t) \/ RotateRename(t)
      BY <2>5, <2>1, <1>4 DEF RotateClose, RotateName, RotateRename, Goto, Stage
    <2>6. CASE RotateRenameFails(t) \/ RotateReopen(t) \/ RotateReopenFails(t)
      BY <2>6, <2>1, <1>4 DEF RotateRenameFails, RotateReopen, RotateReopenFails, Goto, Stage
    <2> QED
      BY <1>5, <2>2, <2>3, <2>4, <2>5, <2>6 DEF Log
  <1> QED
    BY <1>1, <1>2, <1>3, <1>5 DEF Next

LEMMA CountedKeeps == ASSUME Inv, Counted, Next PROVE Counted'
  <1>1. \A t \in Threads : Moved(t) /\ count[t] \in Nat
    BY AllMoved DEF Inv, TypeOK
  <1>2. MaxCalls \in Nat
    BY Bounds
  <1> QED
    BY <1>1, <1>2 DEF Counted, Moved

LEMMA NothingLaterKeeps == ASSUME Inv, NothingLater, Next PROVE NothingLater'
  <1> USE DEF Inv
  <1>1. CASE Start \/ Tick
    BY <1>1 DEF Start, Tick, NothingLater
  <1>2. CASE Kill
    BY <1>2 DEF Kill, Idle, NothingLater
  <1>3. ASSUME NEW t \in Threads, archive' = archive, NEW c,
               call' = [call EXCEPT ![t] = c], c.pc # "rename"
        PROVE  NothingLater'
    BY <1>3 DEF NothingLater, TypeOK
  <1>4. ASSUME NEW t \in Threads, RotateName(t) PROVE NothingLater'
    <2>1. archive' = archive /\ call' = [call EXCEPT ![t] = Stage("rename", call[t].len, now)]
      BY <1>4 DEF RotateName
    <2>2. FreshNames' /\ call'[t].pc = "rename" /\ call'[t].newpath = now
      BY <1>4, <2>1, NameKeeps DEF TypeOK, Stage
    <2>3. \A s \in Seconds : archive[s] # NoFile => s <= now /\ s # now
      BY <2>1, <2>2 DEF FreshNames
    <2>4. \A s \in Seconds : s \in Nat /\ now \in Nat
      BY DEF TypeOK, Seconds
    <2>5. \A s \in Seconds : archive[s] # NoFile => s < now
      BY <2>3, <2>4
    <2>6. \A u \in Threads : u # t => call'[u] = call[u]
      BY <2>1 DEF TypeOK
    <2> QED
      BY <2>1, <2>2, <2>5, <2>6 DEF NothingLater
  <1>5. ASSUME NEW t \in Threads, RotateRename(t) PROVE NothingLater'
    <2>1. call[t].pc \in Holding /\ call' = [call EXCEPT ![t] = Stage("reopen", call[t].len, call[t].newpath)]
      BY <1>5 DEF RotateRename, Holding, Goto
    <2>2. \A u \in Threads : call'[u].pc # "rename"
      <3>1. \A u \in Threads : u # t => call'[u] = call[u] /\ call[u].pc \notin Holding
        BY <2>1, Exclusive DEF TypeOK
      <3>2. call'[t].pc = "reopen"
        BY <2>1 DEF TypeOK, Stage
      <3> QED
        BY <3>1, <3>2 DEF Holding
    <2> QED
      BY <2>2 DEF NothingLater
  <1>6. ASSUME NEW t \in Threads, Log(t), ~RotateName(t), ~RotateRename(t) PROVE NothingLater'
    <2>0. archive' = archive
      BY <1>6 DEF Log, LogCall, LogLock, LogWrite, LogLost, RotateClose,
         RotateRenameFails, RotateReopen, RotateReopenFails, LogUnlock
    <2>1. PICK c : call' = [call EXCEPT ![t] = c] /\ c.pc # "rename"
      <3>1. CASE LogCall(t)
        <4>1. PICK len : call' = [call EXCEPT ![t] = Stage("lock", len, 0)]
          BY <3>1 DEF LogCall
        <4>2. Stage("lock", len, 0).pc # "rename"
          BY DEF Stage
        <4> QED
          BY <4>1, <4>2
      <3>2. ASSUME NEW pc \in {"write", "close", "name", "unlock", "reopen"}, Goto(t, pc)
            PROVE  \E c : call' = [call EXCEPT ![t] = c] /\ c.pc # "rename"
        <4>1. Stage(pc, call[t].len, call[t].newpath).pc # "rename"
          BY <3>2 DEF Stage
        <4> QED
          BY <3>2, <4>1 DEF Goto
      <3>3. CASE LogLock(t) \/ LogWrite(t) \/ LogLost(t)
        BY <3>3, <3>2 DEF LogLock, LogWrite, LogLost
      <3>4. CASE RotateClose(t) \/ RotateRenameFails(t) \/ RotateReopen(t) \/ RotateReopenFails(t)
        BY <3>4, <3>2 DEF RotateClose, RotateRenameFails, RotateReopen, RotateReopenFails
      <3>5. CASE LogUnlock(t)
        <4>1. call' = [call EXCEPT ![t] = Idle] /\ Idle.pc # "rename"
          BY <3>5 DEF LogUnlock, Idle
        <4> QED
          BY <4>1, Zenon
      <3> QED
        BY <1>6, <3>1, <3>3, <3>4, <3>5 DEF Log
    <2> QED
      BY <2>0, <2>1, <1>3
  <1> QED
    BY <1>1, <1>2, <1>4, <1>5, <1>6 DEF Next

-----------------------------------------------------------------------------
(* What the steps do to the log: writing a line appends it, or the piece of *)
(* it that gets to the file, if any does; and nothing else shows.           *)
LEMMA LogType ==
    ASSUME TypeOK
    PROVE  /\ LogLines(archive, file) \in Seq(Lines)
           /\ ArchiveOf(archive)[MaxTime] \in Seq(Lines)
           /\ Content(file) \in Seq(Lines)
           /\ archive \in Archives
  BY ArchiveType, ContentType DEF TypeOK, Archives, LogLines

LEMMA WriteAppends ==
    ASSUME Inv, NEW t \in Threads, LogWrite(t)
    PROVE  \/ LogLines(archive', file') = LogLines(archive, file)
           \/ \E whole \in BOOLEAN :
                 LogLines(archive', file') = Append(LogLines(archive, file), Line(t, whole))
  <1>1. /\ ArchiveOf(archive)[MaxTime] \in Seq(Lines)
        /\ file # NoFile /\ file.lines \in Seq(Lines) /\ Content(file) = file.lines
    BY LogType DEF Inv, LogWrite, CounterIsSizePlusLost, Content
  <1>2. PICK n : archive' = archive /\ file' = Written(t, n)
    BY DEF LogWrite
  <1>3. CASE n = 0
    BY <1>2, <1>3 DEF Written, LogLines
  <1>4. CASE n # 0
    <2> DEFINE whole == n = call[t].len
               line == Line(t, whole)
    <2>1. file'.lines = Append(file.lines, line)
      BY <1>2, <1>4 DEF Written
    <2>2. line \in Lines /\ whole \in BOOLEAN
      BY DEF Line, Lines, Inv, TypeOK
    <2> HIDE DEF line
    <2>3. file' # NoFile
      BY WriteKeeps DEF Inv, LogWrite, CounterIsSizePlusLost
    <2>4. Content(file') = Append(file.lines, line)
      BY <2>1, <2>3 DEF Content
    <2>5. ASSUME NEW p \in Seq(Lines), NEW q \in Seq(Lines), NEW x \in Lines
          PROVE  p \o Append(q, x) = Append(p \o q, x)
      OBVIOUS
    <2>6. ArchiveOf(archive)[MaxTime] \o Append(file.lines, line)
            = Append(ArchiveOf(archive)[MaxTime] \o file.lines, line)
      BY <1>1, <2>2, <2>5
    <2>7. LogLines(archive', file') = Append(LogLines(archive, file), line)
      BY <1>1, <1>2, <2>4, <2>6, Zenon DEF LogLines
    <2> HIDE DEF whole
    <2> QED
      BY <2>2, <2>7, Zenon DEF line
  <1> QED
    BY <1>3, <1>4

LEMMA RenameHides ==
    ASSUME Inv, NothingLater, NEW t \in Threads, RotateRename(t)
    PROVE  LogLines(archive', file') = LogLines(archive, file)
  <1>1. /\ file \in Files /\ file # NoFile
        /\ call[t].newpath \in Seconds
        /\ archive[call[t].newpath] = NoFile
        /\ \A s \in Seconds : archive[s] # NoFile => s < call[t].newpath
        /\ archive' = [archive EXCEPT ![call[t].newpath] = file]
        /\ file' = NoFile
    BY Exclusive DEF Inv, TypeOK, Rotating, FreshNames, NothingLater, RotateRename, Holding
  <1>2. ArchiveOf(archive')[MaxTime] = ArchiveOf(archive)[MaxTime] \o file.lines
    BY <1>1, LogType, ArchiveGrows DEF Inv
  <1>3. ArchiveOf(archive)[MaxTime] \in Seq(Lines) /\ file.lines \in Seq(Lines)
    BY <1>1, LogType DEF Inv, Files
  <1>4. Content(file) = file.lines /\ Content(file') = <<>>
    BY <1>1 DEF Content
  <1>5. ASSUME NEW p \in Seq(Lines), NEW q \in Seq(Lines)
        PROVE  (p \o q) \o <<>> = p \o q
    OBVIOUS
  <1> QED
    BY <1>2, <1>3, <1>4, <1>5 DEF LogLines

LEMMA OthersHide ==
    ASSUME Inv, Next, \A t \in Threads : ~LogWrite(t) /\ ~RotateRename(t)
    PROVE  LogLines(archive', file') = LogLines(archive, file)
  <1>1. archive' = archive
    BY DEF Next, Start, Kill, Tick, Log, LogCall, LogLock, LogLost, RotateClose, RotateName,
       RotateRenameFails, RotateReopen, RotateReopenFails, LogUnlock
  <1>2. file' = file \/ (file = NoFile /\ file' = EmptyFile)
    BY DEF Next, Start, Kill, Tick, Log, LogCall, LogLock, LogLost, RotateClose, RotateName,
       RotateRenameFails, RotateReopen, RotateReopenFails, LogUnlock
  <1>3. Content(file') = Content(file)
    <2>1. EmptyFile # NoFile /\ EmptyFile.lines = <<>>
      BY Bounds DEF EmptyFile
    <2> QED
      BY <1>2, <2>1 DEF Content
  <1> QED
    BY <1>1, <1>3 DEF LogLines

(* A line of the log stays numbered right as its thread moves on.           *)
LEMMA NumberedKeeps ==
    ASSUME Inv, Next, NEW line \in Lines, Numbered(line, call, count)
    PROVE  Numbered(line, call', count')
  <1>1. Moved(line.thread) /\ line.thread \in Threads /\ line.num \in Nat
    BY AllMoved DEF Lines
  <1>2. count[line.thread] \in Nat
    BY <1>1 DEF Inv, TypeOK
  <1> QED
    BY <1>1, <1>2 DEF Numbered, Moved, Pending

LEMMA LoggedKeeps ==
    ASSUME Inv, NothingLater, Next, Logged(LogLines(archive, file), call, count)
    PROVE  Logged(LogLines(archive', file'), call', count')
  <1> DEFINE l == LogLines(archive, file)
             m == LogLines(archive', file')
  <1>1. l \in Seq(Lines) /\ \A i \in 1..Len(l) : l[i] \in Lines /\ Numbered(l[i], call, count)
    BY DEF Logged
  <1>2. ASSUME m = l PROVE Logged(m, call', count')
    <2> HIDE DEF l, m
    <2>1. \A i \in 1..Len(l) : Numbered(l[i], call', count')
      BY <1>1, NumberedKeeps
    <2> QED
      BY <1>1, <1>2, <2>1 DEF Logged
  <1>3. ASSUME NEW t \in Threads, LogWrite(t) PROVE Logged(m, call', count')
    <2>0. m = l \/ \E whole \in BOOLEAN : m = Append(l, Line(t, whole))
      BY <1>3, WriteAppends
    <2> SUFFICES ASSUME NEW whole \in BOOLEAN, m = Append(l, Line(t, whole))
                 PROVE  Logged(m, call', count')
      BY <1>2, <2>0
    <2> DEFINE line == Line(t, whole)
    <2>1. m = Append(l, line) /\ line \in Lines
      BY DEF Line, Lines, Inv, TypeOK
    <2> HIDE DEF l, m
    <2>2. Numbered(line, call', count')
      <3>1. count' = count /\ count[t] \in Nat
        BY <1>3 DEF LogWrite, Inv, TypeOK
      <3>2. call'[t].pc \in {"close", "unlock"}
        BY <1>3 DEF LogWrite, Goto, Stage, Inv, TypeOK
      <3> QED
        BY <3>1, <3>2 DEF Numbered, Line
    <2>3. \A i \in 1..Len(l) : Numbered(l[i], call', count')
      BY <1>1, NumberedKeeps
    <2>4. m \in Seq(Lines) /\ Len(m) = Len(l) + 1
          /\ \A i \in 1..Len(m) : m[i] = IF i = Len(l) + 1 THEN line ELSE l[i]
      <3> HIDE DEF line
      <3> QED
        BY <1>1, <2>1
    <2>5. \A i \in 1..Len(m) : Numbered(m[i], call', count')
      BY <1>1, <2>2, <2>3, <2>4
    <2> QED
      BY <2>4, <2>5 DEF Logged
  <1>4. CASE \E t \in Threads : LogWrite(t)
    BY <1>3, <1>4
  <1>5. CASE \E t \in Threads : RotateRename(t)
    BY <1>2, <1>5, RenameHides
  <1>6. CASE \A t \in Threads : ~LogWrite(t) /\ ~RotateRename(t)
    BY <1>2, <1>6, OthersHide
  <1> QED
    BY <1>4, <1>5, <1>6

LEMMA NothingIsLogged == ASSUME Init PROVE LogLines(archive, file) = <<>>
  <1> DEFINE f == ArchiveOf(archive)
             P(k) == k <= MaxTime + 1 => f[k - 1] = <<>>
             S == {k \in Nat : P(k)}
             last == MaxTime + 1
  <1>1. MaxTime \in Nat /\ last \in Nat /\ last - 1 = MaxTime /\ last <= MaxTime + 1
    BY Bounds
  <1>2. FileByFile(f, archive)
    BY ArchiveIs
  <1> HIDE DEF f, last
  <1>3. P(0)
    <2>1. 0 - 1 = -1
      OBVIOUS
    <2> QED
      BY <1>2, <2>1 DEF FileByFile
  <1>4. ASSUME NEW k \in Nat, P(k) PROVE P(k + 1)
    <2>1. SUFFICES ASSUME k + 1 <= MaxTime + 1 PROVE f[k] = <<>>
      <3>1. k + 1 - 1 = k
        OBVIOUS
      <3> QED
        BY <3>1
    <2>2. k \in Seconds /\ k <= MaxTime + 1
      BY <1>1, <2>1 DEF Seconds
    <2>3. f[k] = f[k - 1] \o Content(archive[k]) /\ f[k - 1] = <<>>
      BY <1>2, <1>4, <2>2 DEF FileByFile
    <2>4. Content(archive[k]) = <<>>
      BY <2>2 DEF Init, Content
    <2> QED
      BY <2>3, <2>4
  <1>5. last \in S
    <2> HIDE DEF P
    <2>1. 0 \in S /\ \A k \in Nat : k \in S => k + 1 \in S
      BY <1>3, <1>4
    <2> HIDE DEF S
    <2> QED
      BY <1>1, <2>1, NatSetInduction
  <1>6. f[MaxTime] = <<>>
    BY <1>1, <1>5
  <1>7. Content(file) = <<>>
    BY DEF Init, Content
  <1> QED
    BY <1>6, <1>7 DEF LogLines, f

LEMMA OrderInit == Init => OrderInv
  <1> SUFFICES ASSUME Init PROVE OrderInv
    OBVIOUS
  <1>1. Inv
    BY InitInv
  <1>2. Counted /\ NothingLater
    BY Bounds DEF Init, Counted, NothingLater, Pending, Idle
  <1>3. LogLines(archive, file) = <<>>
    BY NothingIsLogged
  <1>4. Logged(LogLines(archive, file), call, count)
    BY <1>3 DEF Logged
  <1> QED
    BY <1>1, <1>2, <1>4 DEF OrderInv

LEMMA OrderKeeps == OrderInv /\ [Next]_vars => OrderInv'
  <1> SUFFICES ASSUME OrderInv, [Next]_vars PROVE OrderInv'
    OBVIOUS
  <1>1. Inv'
    BY NextKeeps DEF OrderInv
  <1>2. CASE Next
    BY <1>1, <1>2, CountedKeeps, NothingLaterKeeps, LoggedKeeps DEF OrderInv
  <1>3. CASE UNCHANGED vars
    <2>1. archive' = archive /\ file' = file /\ call' = call /\ count' = count
      BY <1>3 DEF vars
    <2> QED
      BY <1>1, <2>1 DEF OrderInv, Counted, NothingLater, Pending
  <1> QED
    BY <1>2, <1>3

LEMMA OrderInvariance == Spec => []OrderInv
  BY OrderInit, OrderKeeps, PTL DEF Spec

(* A line or piece that is written is the newest of its thread in the log.  *)
LEMMA WriteIsWrite ==
    ASSUME OrderInv, NEW t \in Threads, LogWrite(t)
    PROVE  \/ LogLines(archive', file') = LogLines(archive, file)
           \/ \E k \in 1..MaxCalls, whole \in BOOLEAN :
                 /\ \A i \in 1..Len(LogLines(archive, file)) :
                       LogLines(archive, file)[i].thread = t =>
                          LogLines(archive, file)[i].num < k
                 /\ LogLines(archive', file')
                      = Append(LogLines(archive, file),
                               [thread |-> t, num |-> k, whole |-> whole])
  <1> DEFINE l == LogLines(archive, file)
  <1>1. call[t].pc = "write"
    BY DEF LogWrite
  <1>2. count[t] \in 1..MaxCalls
    BY <1>1, Bounds DEF OrderInv, Counted, Pending, Inv, TypeOK
  <1>3. \A i \in 1..Len(l) : Numbered(l[i], call, count)
    BY DEF OrderInv, Logged
  <1> HIDE DEF l
  <1>4. \A i \in 1..Len(l) : l[i].thread = t => l[i].num < count[t]
    BY <1>1, <1>3 DEF Numbered
  <1>5. \/ LogLines(archive', file') = l
        \/ \E whole \in BOOLEAN :
              LogLines(archive', file')
                = Append(l, [thread |-> t, num |-> count[t], whole |-> whole])
    BY WriteAppends DEF OrderInv, l, Line
  <1> QED
    BY <1>2, <1>4, <1>5 DEF l

(* Read one after the other, the files are one log: every line gets there   *)
(* once, behind all that is there and newer than its thread's earlier ones; *)
(* no restart, kill, rotation or failed rotation shows in it.               *)
THEOREM FilesAreOneLog == Spec => ImplementsLog
  <1>1. Init => TheLog!Init
    <2> SUFFICES ASSUME Init PROVE Archived[MaxTime] \o Content(file) = <<>>
      BY DEF TheLog!Init
    <2>1. LogLines(archive, file) = <<>>
      BY NothingIsLogged
    <2> QED
      BY <2>1, ArchivedIs DEF LogLines
  <1>2. OrderInv /\ [Next]_vars => [TheLog!Next]_(Archived[MaxTime] \o Content(file))
    <2> SUFFICES ASSUME OrderInv, [Next]_vars
                 PROVE  [TheLog!Next]_(Archived[MaxTime] \o Content(file))
      OBVIOUS
    <2>1. /\ Archived[MaxTime] \o Content(file) = LogLines(archive, file)
          /\ (Archived[MaxTime] \o Content(file))' = LogLines(archive', file')
      BY ArchivedIs DEF LogLines, Content
    <2>2. ASSUME NEW t \in Threads, LogWrite(t)
          PROVE  [TheLog!Next]_(Archived[MaxTime] \o Content(file))
      BY <2>1, <2>2, WriteIsWrite DEF TheLog!Next, TheLog!Write, TheLog!Newest
    <2>3. CASE \E t \in Threads : RotateRename(t)
      BY <2>1, <2>3, RenameHides DEF OrderInv
    <2>4. CASE Next /\ \A t \in Threads : ~LogWrite(t) /\ ~RotateRename(t)
      BY <2>1, <2>4, OthersHide DEF OrderInv
    <2>5. CASE UNCHANGED vars
      BY <2>1, <2>5 DEF vars
    <2> QED
      BY <2>2, <2>3, <2>4, <2>5
  <1> QED
    BY <1>1, <1>2, OrderInvariance, PTL DEF Spec, ImplementsLog, TheLog!Spec
=============================================================================
