----------------------------- MODULE MCLifecycle -----------------------------
EXTENDS Lifecycle

CONSTANT First   \* one of the processes

Server(number) == <<Item(0, "server", ""), Item(1, "port", number)>>

(* A server; one without a pid file elsewhere on the same port; one on the  *)
(* same data, with the same pid file, on another port; and a file that does *)
(* not parse.                                                               *)
TheServer == <<Item(0, "work_dir", "d1"), Item(0, "pidfile", "pid")>> \o Server("1")

MCFiles ==
    {TheServer,
     Server("1") \o <<Comment(""), Item(0, "work_dir", "d2")>>,
     <<Item(0, "work_dir", "d1"), Item(0, "pidfile", "pid")>> \o Server("2"),
     <<Item(0, "work_dir", "d1"), Item(2, "port", "1")>>}

(* The processes are alike, so that one of them can be given the main       *)
(* server (or nothing, to leave the other alone) and the other any file.    *)
MCInit == Init /\ conf[First] \in {Options(load(TheServer)), NoConfig}

MCSpec == MCInit /\ [][Next]_vars /\ Fairness

(* All files of up to four lines, of two kinds.                             *)
Shapes == {Blank, Bad(0), Comment("1")} \cup {Item(d, "a", "1") : d \in 0..3}
Keyed == {Item(d, k, v) : d \in 0..1, k \in {"a", "b"}, v \in {"1", "2"}}
MCSamples == UNION {[1..n -> Shapes] \cup [1..n -> Keyed] : n \in 0..4}
=============================================================================
