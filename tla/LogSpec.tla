------------------------------ MODULE LogSpec ------------------------------
(***************************************************************************)
(* What the logger promises: the log is one sequence of lines that only    *)
(* grows at its end, and the lines of each thread come in the order in     *)
(* which the thread logged them, each at most once, whole or, when the     *)
(* disk is full, cut short.  Restarts of the process and rotations of the  *)
(* file do not show.                                                       *)
(***************************************************************************)
EXTENDS Naturals, Sequences

CONSTANTS Threads,    \* who logs
          Numbers     \* a thread numbers its calls

VARIABLE log

Init == log = <<>>

Newest(t, k) == \A i \in 1..Len(log) : log[i].thread = t => log[i].num < k

Write(t, k, whole) ==
    /\ Newest(t, k)
    /\ log' = Append(log, [thread |-> t, num |-> k, whole |-> whole])

Next == \E t \in Threads, k \in Numbers, whole \in BOOLEAN : Write(t, k, whole)

Spec == Init /\ [][Next]_log
=============================================================================
