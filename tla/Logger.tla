------------------------------- MODULE Logger -------------------------------
(***************************************************************************)
(* The logger (src/util/log.cpp): threads append lines to one file under a *)
(* mutex; when the file has grown past rotate_size_ it is closed, renamed  *)
(* after the current second and opened anew.  The process may be killed    *)
(* and started again at any moment, and then continues the file it finds.  *)
(* A write may fail, on a full disk for instance: nobody looks at what     *)
(* fwrite and fflush return, so that the line is lost or cut short and     *)
(* counted all the same.                                                   *)
(*                                                                         *)
(* Two rotations within one second would give the same name, and rename    *)
(* would replace the file of the first.  The model assumes that no more    *)
(* than MaxRate <= RotateSize bytes are logged in a second (the            *)
(* configurations rotate at 1 GB).                                         *)
(***************************************************************************)
EXTENDS Integers, Sequences

CONSTANTS Threads,     \* the threads that log
          Nobody,      \* no thread
          NoFile,      \* no file of this name
          RotateSize,  \* rotate_size_ (positive: rotation is on)
          MaxLine,     \* the longest line (LOG_BUF_LEN)
          MaxRate,     \* assumption: bytes logged per second
          MaxCalls,    \* bound: calls of each thread
          MaxTime,     \* bound: seconds
          MaxLives     \* bound: starts of the process

ASSUME LogAssumption ==
    /\ Nobody \notin Threads
    /\ NoFile \notin [lines : Seq([thread : Threads, num : Nat, whole : BOOLEAN]),
                    size : Nat]
    /\ RotateSize \in Nat \ {0} /\ MaxLine \in Nat \ {0}
    /\ MaxRate \in Nat /\ MaxRate <= RotateSize
    /\ MaxCalls \in Nat /\ MaxTime \in Nat /\ MaxLives \in Nat

VARIABLES file,      \* the file called filename
          archive,   \* the files named after a second
          fp,        \* Logger::fp: "open" on file, "closed" (dangling) or "null"
          w_curr,    \* stats.w_curr
          lost,      \* history: bytes of failed writes to the open file
          mutex,     \* the thread that holds the mutex, or Nobody
          call,      \* what each thread is at
          count,     \* history: calls each thread has made
          now,       \* the second
          sent,      \* bytes logged in this second
          lives,     \* history: starts of the process
          running    \* is the process running?

vars == <<file, archive, fp, w_curr, lost, mutex, call, count, now, sent, lives, running>>

Seconds == 0..MaxTime
Lengths == 1..MaxLine
Lines == [thread : Threads, num : Nat, whole : BOOLEAN]
Files == [lines : Seq(Lines), size : Nat]
EmptyFile == [lines |-> <<>>, size |-> 0]
Idle == [pc |-> "idle"]

Init == /\ file = NoFile
        /\ archive = [s \in Seconds |-> NoFile]
        /\ fp = "null"
        /\ w_curr = 0
        /\ lost = 0
        /\ mutex = Nobody
        /\ call = [t \in Threads |-> Idle]
        /\ count = [t \in Threads |-> 0]
        /\ now = 0
        /\ sent = 0
        /\ lives = 0
        /\ running = FALSE

-----------------------------------------------------------------------------
(* Mutant of open: the counter does not take over the size of the file.     *)
Start_from_zero ==
    /\ ~running /\ lives < MaxLives
    /\ running' = TRUE
    /\ lives' = lives + 1
    /\ file' = IF file = NoFile THEN EmptyFile ELSE file
    /\ fp' = "open"
    /\ w_curr' = 0
    /\ UNCHANGED <<archive, lost, mutex, call, count, now, sent>>

(* Logger::open: append to the file there is, and count from its size on.   *)
(* (If it cannot be opened, main exits at once.)                            *)
Start ==
    /\ ~running /\ lives < MaxLives
    /\ running' = TRUE
    /\ lives' = lives + 1
    /\ file' = IF file = NoFile THEN EmptyFile ELSE file
    /\ fp' = "open"
    /\ w_curr' = file'.size
    /\ UNCHANGED <<archive, lost, mutex, call, count, now, sent>>

(* The process ends, whatever its threads are at.  A line that was flushed  *)
(* is with the kernel and stays.                                            *)
Kill ==
    /\ running
    /\ running' = FALSE
    /\ fp' = "null"
    /\ mutex' = Nobody
    /\ call' = [t \in Threads |-> Idle]
    /\ w_curr' = 0
    /\ lost' = 0
    /\ UNCHANGED <<file, archive, count, now, sent, lives>>

Tick ==
    /\ now < MaxTime
    /\ now' = now + 1
    /\ sent' = 0
    /\ UNCHANGED <<file, archive, fp, w_curr, lost, mutex, call, count, lives, running>>

-----------------------------------------------------------------------------
(* Logger::logv by thread t, for a line whose level is not filtered out.    *)
Stage(pc, len, newpath) == [pc |-> pc, len |-> len, newpath |-> newpath]

Goto(t, pc) == call' = [call EXCEPT ![t] = Stage(pc, call[t].len, call[t].newpath)]

LogCall(t) ==
    /\ running
    /\ call[t] = Idle /\ count[t] < MaxCalls
    /\ count' = [count EXCEPT ![t] = @ + 1]
    /\ \E len \in Lengths :
          call' = [call EXCEPT ![t] = Stage("lock", len, 0)]
    /\ UNCHANGED <<file, archive, fp, w_curr, lost, mutex, now, sent, lives, running>>

LogLock(t) ==
    /\ call[t].pc = "lock"
    /\ mutex = Nobody
    /\ mutex' = t
    /\ Goto(t, "write")
    /\ UNCHANGED <<file, archive, fp, w_curr, lost, count, now, sent, lives, running>>

Line(t, whole) == [thread |-> t, num |-> count[t], whole |-> whole]

TooLong(size) == size > RotateSize

(* The file when n bytes of the line of thread t have got there.            *)
Written(t, n) ==
    IF n = 0 THEN file
    ELSE [lines |-> Append(file.lines, Line(t, n = call[t].len)), size |-> file.size + n]

(* fwrite and fflush bring the line to the file, or fewer bytes of it, or   *)
(* none; then the counter, then the test for rotation.                      *)
LogWrite(t) ==
    LET len == call[t].len
    IN  /\ call[t].pc = "write"
        /\ fp = "open"
        /\ sent + len <= MaxRate
        /\ sent' = sent + len
        /\ \E n \in 0..len :
              /\ file' = Written(t, n)
              /\ lost' = lost + (len - n)
        /\ w_curr' = w_curr + len
        /\ Goto(t, IF TooLong(w_curr + len) THEN "close" ELSE "unlock")
        /\ UNCHANGED <<archive, fp, mutex, count, now, lives, running>>

(* After a failed rotation fp is dangling or NULL.  Writing through the     *)
(* first is undefined: the line is lost or the process dies; through NULL   *)
(* it dies (Kill stands for both deaths).                                   *)
LogLost(t) ==
    /\ call[t].pc = "write"
    /\ fp = "closed"
    /\ w_curr' = w_curr + call[t].len
    /\ Goto(t, IF TooLong(w_curr + call[t].len) THEN "close" ELSE "unlock")
    /\ UNCHANGED <<file, archive, fp, lost, mutex, count, now, sent, lives, running>>

(* Logger::rotate: fclose, read the clock, rename, fopen.                   *)
RotateClose(t) ==
    /\ call[t].pc = "close"
    /\ fp' = "closed"
    /\ lost' = 0
    /\ Goto(t, "name")
    /\ UNCHANGED <<file, archive, w_curr, mutex, count, now, sent, lives, running>>

RotateName(t) ==
    /\ call[t].pc = "name"
    /\ call' = [call EXCEPT ![t] = Stage("rename", call[t].len, now)]
    /\ UNCHANGED <<file, archive, fp, w_curr, lost, mutex, count, now, sent, lives, running>>

(* Mutants of RotateRename: the name does not tell the seconds apart; the   *)
(* file is copied instead of moved.                                         *)
RotateRename_same_name(t) ==
    /\ call[t].pc = "rename"
    /\ archive' = [archive EXCEPT ![0] = file]
    /\ file' = NoFile
    /\ Goto(t, "reopen")
    /\ UNCHANGED <<fp, w_curr, lost, mutex, count, now, sent, lives, running>>

RotateRename_copies(t) ==
    /\ call[t].pc = "rename"
    /\ archive' = [archive EXCEPT ![call[t].newpath] = file]
    /\ Goto(t, "reopen")
    /\ UNCHANGED <<file, fp, w_curr, lost, mutex, count, now, sent, lives, running>>

RotateRename(t) ==
    /\ call[t].pc = "rename"
    /\ archive' = [archive EXCEPT ![call[t].newpath] = file]
    /\ file' = NoFile
    /\ Goto(t, "reopen")
    /\ UNCHANGED <<fp, w_curr, lost, mutex, count, now, sent, lives, running>>

(* rename fails: rotate returns with the file closed and the counter as it  *)
(* was.  So it does when the file has been removed by somebody else.        *)
RotateRenameFails(t) ==
    /\ call[t].pc = "rename"
    /\ Goto(t, "unlock")
    /\ UNCHANGED <<file, archive, fp, w_curr, lost, mutex, count, now, sent, lives, running>>

(* Mutant of RotateReopen: the counter is not reset.                        *)
RotateReopen_keeps_count(t) ==
    /\ call[t].pc = "reopen"
    /\ file' = IF file = NoFile THEN EmptyFile ELSE file
    /\ fp' = "open"
    /\ Goto(t, "unlock")
    /\ UNCHANGED <<archive, w_curr, lost, mutex, count, now, sent, lives, running>>

RotateReopen(t) ==
    /\ call[t].pc = "reopen"
    /\ file' = IF file = NoFile THEN EmptyFile ELSE file
    /\ fp' = "open"
    /\ w_curr' = 0
    /\ Goto(t, "unlock")
    /\ UNCHANGED <<archive, lost, mutex, count, now, sent, lives, running>>

RotateReopenFails(t) ==
    /\ call[t].pc = "reopen"
    /\ fp' = "null"
    /\ Goto(t, "unlock")
    /\ UNCHANGED <<file, archive, w_curr, lost, mutex, count, now, sent, lives, running>>

LogUnlock(t) ==
    /\ call[t].pc = "unlock"
    /\ mutex' = Nobody
    /\ call' = [call EXCEPT ![t] = Idle]
    /\ UNCHANGED <<file, archive, fp, w_curr, lost, count, now, sent, lives, running>>

-----------------------------------------------------------------------------
Log(t) == \/ LogCall(t) \/ LogLock(t) \/ LogWrite(t) \/ LogLost(t)
          \/ RotateClose(t) \/ RotateName(t)
          \/ RotateRename(t) \/ RotateRenameFails(t)
          \/ RotateReopen(t) \/ RotateReopenFails(t)
          \/ LogUnlock(t)

Next == Start \/ Kill \/ Tick \/ \E t \in Threads : Log(t)

Spec == Init /\ [][Next]_vars

-----------------------------------------------------------------------------
Holding == {"write", "close", "name", "rename", "reopen", "unlock"}

Calls == {Idle} \cup [pc : {"lock"} \cup Holding, len : Lengths, newpath : Seconds]

(* Types; and the mutex is held exactly from the lock to the unlock of      *)
(* logv, whichever way a rotation in between goes.                          *)
TypeOK ==
    /\ file \in Files \cup {NoFile}
    /\ archive \in [Seconds -> Files \cup {NoFile}]
    /\ fp \in {"open", "closed", "null"}
    /\ w_curr \in Nat /\ lost \in Nat
    /\ mutex \in Threads \cup {Nobody}
    /\ call \in [Threads -> Calls]
    /\ count \in [Threads -> Nat]
    /\ now \in Seconds
    /\ sent \in Nat /\ sent <= MaxRate
    /\ lives \in Nat
    /\ running \in BOOLEAN
    /\ \A t \in Threads : mutex = t <=> call[t].pc \in Holding

(* The counter that decides on rotation is the size of the open file and    *)
(* the bytes that failing writes to it have lost, across restarts,          *)
(* rotations and failed rotations: it is never behind the file, so that     *)
(* rotation is never late, and ahead of it only by what was lost.           *)
CounterIsSizePlusLost == fp = "open" => file # NoFile /\ w_curr = file.size + lost

(* Rotation bounds every file.  A line may pass the limit; and a process    *)
(* that is killed between writing that line and rotating leaves the file to *)
(* the next one, which adds a line before it rotates.                       *)
FilesBounded ==
    \A f \in {file} \cup {archive[s] : s \in Seconds} :
       f # NoFile => f.size <= RotateSize + lives * MaxLine

(* No file that was rotated away is changed or replaced later on.           *)
ArchivesKept ==
    [][\A s \in Seconds : archive[s] # NoFile => archive'[s] = archive[s]]_vars

(* What the files hold, oldest first.                                       *)
Content(f) == IF f = NoFile THEN <<>> ELSE f.lines

Archived[s \in -1..MaxTime] ==
    IF s = -1 THEN <<>> ELSE Archived[s - 1] \o Content(archive[s])

(* Read one after the other, the files are one log in which no line, or     *)
(* piece of one, that was written is missing, doubled or out of order: it   *)
(* gets there in one step and stays, through kills at any moment, failing   *)
(* writes, rotations and failed rotations.                                  *)
TheLog == INSTANCE LogSpec WITH
             Numbers <- 1..MaxCalls,
             log <- Archived[MaxTime] \o Content(file)

ImplementsLog == TheLog!Spec
=============================================================================
