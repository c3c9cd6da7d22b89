----------------------------- MODULE Lifecycle -----------------------------
(***************************************************************************)
(* The life of server processes, from main to exit (geminidb-server.cpp,   *)
(* NetworkServer's init and teardown, WorkerPool's start and stop), several *)
(* of them on one machine: they share the pid file, leveldb's LOCK on the  *)
(* data directory and the listening port, as far as their configuration    *)
(* files name the same ones.  A process may be killed at any moment, and   *)
(* its teardown cancels the worker threads without waiting for them: one   *)
(* that dies inside a function keeps the mutex of that function locked.    *)
(***************************************************************************)
EXTENDS Config, FiniteSets

CONSTANTS Pids,       \* processes; each is started at most once
          Writers,    \* the threads of the writer pool (one)
          Readers,    \* the threads of the reader pool
          Files,      \* the configuration files there are
          Samples,    \* more files, on which load, save and get are checked
          SampleKeys, \* and the keys that are looked up in them
          Nobody      \* no process

Workers == Writers \cup Readers

ASSUME LifecycleAssumption ==
    /\ Nobody \notin Pids
    /\ Writers \cap Readers = {}
    /\ Samples \subseteq Seq(Lines) /\ SampleKeys \subseteq Keys

VARIABLES conf,     \* the options in the file each process is started with
          pc,       \* where main is in each process
          quit,     \* the processes with quit = true
          at,       \* what each worker thread of each process is in
          pidfile,  \* the process each pid file names, or Nobody: no file
          lock,     \* who has LOCK of each data directory
          port,     \* who listens on each port
          met       \* history: processes that were not alone all their life

vars == <<conf, pc, quit, at, pidfile, lock, port, met>>

files == <<pidfile, lock, port>>

(* What a process takes from its configuration file.                        *)
Options(tree) ==
    [pidfile |-> get_str(tree, <<"pidfile">>),
     work_dir |-> get_str(tree, <<"work_dir">>),
     port |-> get_str(tree, <<"server", "port">>)]

Configs == {Options(tree) : tree \in {load(f) : f \in Files} \ {NoConfig}}
Unreadable == {load(f) : f \in Files} \cap {NoConfig}

PidPath(p) == conf[p].pidfile
Dir(p) == conf[p].work_dir
Port(p) == conf[p].port

Over == {"none", "exited", "failed", "killed"}
Alive(p) == pc[p] \notin Over

NoThreads == [w \in Workers |-> "none"]

Init == /\ conf \in [Pids -> Configs \cup Unreadable]
        /\ pc = [p \in Pids |-> "none"]
        /\ quit = {}
        /\ at = [p \in Pids |-> NoThreads]
        /\ pidfile = [f \in {c.pidfile : c \in Configs} |-> Nobody]
        /\ lock = [d \in {c.work_dir : c \in Configs} |-> Nobody]
        /\ port = [n \in {c.port : c \in Configs} |-> Nobody]
        /\ met = {}

-----------------------------------------------------------------------------
Goto(p, stage) == pc' = [pc EXCEPT ![p] = stage]

(* What the kernel takes back when a process ends, however it ends.         *)
Freed(table, p) == [x \in DOMAIN table |-> IF table[x] = p THEN Nobody ELSE table[x]]

Ends(p, how) ==
    /\ Goto(p, how)
    /\ lock' = Freed(lock, p)
    /\ port' = Freed(port, p)
    /\ at' = [at EXCEPT ![p] = NoThreads]
    /\ quit' = quit \ {p}
    /\ UNCHANGED <<conf, met>>

(* main: load the configuration file.                                       *)
Start(p) ==
    LET others == {q \in Pids : Alive(q)}
    IN  /\ pc[p] = "none"
        /\ Goto(p, IF conf[p] = NoConfig THEN "exited" ELSE "init")
        /\ met' = IF others = {} THEN met ELSE met \cup others \cup {p}
        /\ UNCHANGED <<conf, quit, at, files>>

(* Without the option "pidfile" there is none to write or remove.           *)
PidfileBecomes(p, owner) ==
    pidfile' = IF PidPath(p) = "" THEN pidfile ELSE [pidfile EXCEPT ![PidPath(p)] = owner]

(* Mutant: check_pidfile takes a pid file for a running server.             *)
RemoveOldPidfile_refuses(p) ==
    LET f == PidPath(p)
    IN  /\ pc[p] = "init"
        /\ Goto(p, IF f # "" /\ pidfile[f] # Nobody THEN "exited" ELSE "pid")
        /\ UNCHANGED <<conf, quit, at, files, met>>

(* check_pidfile says 1, so the pid file goes, whoever wrote it.            *)
RemoveOldPidfile(p) ==
    /\ pc[p] = "init"
    /\ Goto(p, "pid")
    /\ PidfileBecomes(p, Nobody)
    /\ UNCHANGED <<conf, quit, at, lock, port, met>>

(* write_pid.  It creates or overwrites the file; nothing reads it between  *)
(* fopen and fclose.                                                        *)
WritePidfile(p) ==
    /\ pc[p] = "pid"
    /\ Goto(p, "open")
    /\ PidfileBecomes(p, p)
    /\ UNCHANGED <<conf, quit, at, lock, port, met>>

(* The log or the pid file cannot be written, work_dir is no directory, the *)
(* database is damaged: exit(1).                                            *)
StartFails(p) ==
    /\ pc[p] \in {"pid", "open"}
    /\ Ends(p, "failed")
    /\ UNCHANGED pidfile

(* GEMINIDB::open: leveldb takes LOCK, or main exits.                       *)
OpenDb(p) ==
    /\ pc[p] = "open"
    /\ lock[Dir(p)] = Nobody
    /\ Goto(p, "net")
    /\ lock' = [lock EXCEPT ![Dir(p)] = p]
    /\ UNCHANGED <<conf, quit, at, pidfile, port, met>>

DbIsBusy(p) ==
    /\ pc[p] = "open"
    /\ lock[Dir(p)] # Nobody
    /\ Ends(p, "exited")
    /\ UNCHANGED pidfile

(* The constructor of NetworkServer installs the signal handlers.           *)
InstallHandlers(p) ==
    /\ pc[p] = "net"
    /\ Goto(p, "listen")
    /\ UNCHANGED <<conf, quit, at, files, met>>

Listen(p) ==
    /\ pc[p] = "listen"
    /\ port[Port(p)] = Nobody
    /\ Goto(p, "pools")
    /\ port' = [port EXCEPT ![Port(p)] = p]
    /\ UNCHANGED <<conf, quit, at, pidfile, lock, met>>

PortIsBusy(p) ==
    /\ pc[p] = "listen"
    /\ port[Port(p)] # Nobody
    /\ Ends(p, "exited")
    /\ UNCHANGED pidfile

(* serve: WorkerPool::start of both pools, then the loop.  A thread that    *)
(* cannot be created is missed by nobody.                                   *)
StartPools(p) ==
    /\ pc[p] = "pools"
    /\ Goto(p, "loop")
    /\ \E created \in SUBSET Workers :
          at' = [at EXCEPT ![p] = [w \in Workers |->
                                      IF w \in created THEN "init" ELSE "gone"]]
    /\ UNCHANGED <<conf, quit, files, met>>

LeaveLoop(p) ==
    /\ pc[p] = "loop"
    /\ p \in quit
    /\ Goto(p, "unlisten")
    /\ UNCHANGED <<conf, quit, at, files, met>>

(* fdes->wait returns NULL: the loop breaks, as for quit.                   *)
WaitFails(p) ==
    /\ pc[p] = "loop"
    /\ Goto(p, "unlisten")
    /\ UNCHANGED <<conf, quit, at, files, met>>

-----------------------------------------------------------------------------
(* The teardown: delete net, delete procServer, delete data_db, a last line *)
(* to the log, remove_pidfile.                                              *)
(* Mutant of Unlisten: the pid file goes first.                             *)
Unlisten_removes_pidfile(p) ==
    /\ pc[p] = "unlisten"
    /\ Goto(p, "stop writer")
    /\ port' = Freed(port, p)
    /\ PidfileBecomes(p, Nobody)
    /\ UNCHANGED <<conf, quit, at, lock, met>>

(* Mutant: the destructor leaves the listening socket open.                 *)
Unlisten_leaks(p) ==
    /\ pc[p] = "unlisten"
    /\ Goto(p, "stop writer")
    /\ UNCHANGED <<conf, quit, at, files, met>>

Unlisten(p) ==
    /\ pc[p] = "unlisten"
    /\ Goto(p, "stop writer")
    /\ port' = Freed(port, p)
    /\ UNCHANGED <<conf, quit, at, pidfile, lock, met>>

(* stop and delete, of the writer and of the reader pool.  Deleting does    *)
(* not wait: the waiters of a condition variable are awake once they are    *)
(* cancelled, and a mutex is destroyed locked or not.                       *)
StopWriter(p) ==
    /\ pc[p] = "stop writer"
    /\ Goto(p, "stop reader")
    /\ UNCHANGED <<conf, quit, at, files, met>>

StopReader(p) ==
    /\ pc[p] = "stop reader"
    /\ Goto(p, "close")
    /\ UNCHANGED <<conf, quit, at, files, met>>

(* The threads that stop has cancelled.                                     *)
Cancelled(p) == CASE pc[p] = "stop reader" -> Writers
                  [] pc[p] \in {"close", "log", "remove"} -> Workers
                  [] OTHER -> {}

(* Mutant: the database is closed when the workers have ended.              *)
CloseDb_joins(p) ==
    /\ pc[p] = "close"
    /\ \A w \in Workers : at[p][w] \in {"gone", "stuck"}
    /\ Goto(p, "log")
    /\ lock' = Freed(lock, p)
    /\ UNCHANGED <<conf, quit, at, pidfile, port, met>>

CloseDb(p) ==
    /\ pc[p] = "close"
    /\ Goto(p, "log")
    /\ lock' = Freed(lock, p)
    /\ UNCHANGED <<conf, quit, at, pidfile, port, met>>

(* A worker in Logger::logv holds the logger's mutex; one that died there   *)
(* ("stuck") holds it for good.                                             *)
LogBusy(p) == \E w \in Workers : at[p][w] \in {"log", "stuck"}

LogExit(p) ==
    /\ pc[p] = "log"
    /\ ~LogBusy(p)
    /\ Goto(p, "remove")
    /\ UNCHANGED <<conf, quit, at, files, met>>

(* remove_pidfile, and main returns.                                        *)
RemovePidfile(p) ==
    /\ pc[p] = "remove"
    /\ PidfileBecomes(p, Nobody)
    /\ Ends(p, "exited")

-----------------------------------------------------------------------------
(* SIGTERM and SIGINT set quit once the handlers are installed, which makes *)
(* no difference after the loop.  Before, and SIGKILL always, they end the  *)
(* process.  Kill also stands for crashes, such as those of workers that go *)
(* on with what was deleted.                                                *)
Terminate(p) ==
    /\ pc[p] \in {"listen", "pools", "loop"}
    /\ p \notin quit
    /\ quit' = quit \cup {p}
    /\ UNCHANGED <<conf, pc, at, files, met>>

Kill(p) == Alive(p) /\ Ends(p, "killed") /\ UNCHANGED pidfile

-----------------------------------------------------------------------------
(* _run_worker by thread w of process p: a line is logged by init and by a  *)
(* job that meets an error.                                                 *)
Moves(p, w, from, to) ==
    /\ at[p][w] \in from
    /\ at' = [at EXCEPT ![p][w] = to]
    /\ UNCHANGED <<conf, pc, quit, files, met>>

(* Mutant: logv writes without the mutex.                                   *)
WorkerLogs_unlocked(p, w) == Moves(p, w, {"init", "busy"}, "log")

WorkerLogs(p, w) == ~LogBusy(p) /\ Moves(p, w, {"init", "busy"}, "log")
WorkerLogged(p, w) == Moves(p, w, {"log"}, "idle")
WorkerPops(p, w) == Moves(p, w, {"idle"}, "busy")
WorkerPushes(p, w) == Moves(p, w, {"busy"}, "idle")

(* A cancelled thread dies where it waits or writes: in cond_wait, in the   *)
(* job or in SelectableQueue::push, keeping the queue's mutex, which main   *)
(* does not lock any more; or in the write of a log line, keeping the       *)
(* logger's.  Before its first line it is not at such a point.              *)
WorkerDies(p, w) ==
    /\ w \in Cancelled(p)
    /\ \/ Moves(p, w, {"idle", "busy"}, "gone")
       \/ Moves(p, w, {"log"}, "stuck")

Work(p, w) == \/ WorkerLogs(p, w) \/ WorkerLogged(p, w)
              \/ WorkerPops(p, w) \/ WorkerPushes(p, w)
              \/ WorkerDies(p, w)

Startup(p) == \/ RemoveOldPidfile(p) \/ WritePidfile(p) \/ StartFails(p)
              \/ OpenDb(p) \/ DbIsBusy(p)
              \/ InstallHandlers(p) \/ Listen(p) \/ PortIsBusy(p)
              \/ StartPools(p)

Teardown(p) == \/ LeaveLoop(p) \/ Unlisten(p)
               \/ StopWriter(p) \/ StopReader(p) \/ CloseDb(p)
               \/ LogExit(p) \/ RemovePidfile(p)

Main(p) == Startup(p) \/ Teardown(p)

Next == \E p \in Pids : \/ Start(p) \/ Main(p) \/ WaitFails(p)
                        \/ Terminate(p) \/ Kill(p)
                        \/ \E w \in Workers : Work(p, w)

(* The kernel runs the main thread of every process.  Of the workers        *)
(* nothing is assumed: a job may take for ever.                             *)
Fairness == \A p \in Pids : WF_vars(Main(p))

Spec == Init /\ [][Next]_vars /\ Fairness

-----------------------------------------------------------------------------
Stages == Over \cup {"init", "pid", "open", "net", "listen", "pools", "loop",
                   "unlisten", "stop writer", "stop reader", "close", "log", "remove"}

WorkerStages == {"none", "init", "log", "idle", "busy", "gone", "stuck"}

(* Types; and no two threads of a process hold its logger's mutex.          *)
TypeOK ==
    /\ pc \in [Pids -> Stages]
    /\ quit \subseteq Pids
    /\ at \in [Pids -> [Workers -> WorkerStages]]
    /\ pidfile \in [DOMAIN pidfile -> Pids \cup {Nobody}]
    /\ lock \in [DOMAIN lock -> Pids \cup {Nobody}]
    /\ port \in [DOMAIN port -> Pids \cup {Nobody}]
    /\ \A p \in Pids : Alive(p) => /\ PidPath(p) \in DOMAIN pidfile
                                   /\ Dir(p) \in DOMAIN lock /\ Port(p) \in DOMAIN port
    /\ met \subseteq Pids
    /\ \A p \in Pids : \A v, w \in Workers :
          {at[p][v], at[p][w]} \subseteq {"log", "stuck"} => v = w

Holds(p) == \/ \E d \in DOMAIN lock : lock[d] = p
            \/ \E n \in DOMAIN port : port[n] = p

(* Whoever listens on a port owns the database it would answer from.        *)
ListenersOwnTheirData ==
    \A n \in DOMAIN port : port[n] # Nobody => lock[Dir(port[n])] = port[n]

(* The pid file of a server that has been alone names it until it has let   *)
(* go of its database and its port: what kill_process waits for.            *)
PidfileStaysWhileHeld ==
    \A p \in Pids \ met :
       Alive(p) /\ PidPath(p) # "" /\ Holds(p) => pidfile[PidPath(p)] = p

(* After SIGTERM a server lets go of its database and its port, whichever   *)
(* of its threads die with whichever mutex locked.                          *)
QuitReleases ==
    \A p \in Pids : (pc[p] = "loop" /\ p \in quit) ~> (~Alive(p) \/ ~Holds(p))

(* Whatever a crash left behind, a server started alone comes to serve,     *)
(* unless it is killed or the machine fails it (StartFails).                *)
StartsAlone ==
    \A p \in Pids :
       pc[p] = "init" /\ p \notin met ~>
          pc[p] \in {"loop", "killed", "failed"} \/ p \in met

-----------------------------------------------------------------------------
(* The configuration code has no state, so the initial states are enough to *)
(* look at it.                                                              *)
AtStart == \A p \in Pids : pc[p] = "none"

(* load finds the structure that the indents of a file give, and refuses    *)
(* the files that have none: an item too deep, a line that does not parse.  *)
(* What it loads is the same after save and another load, and get_str finds *)
(* the last of several sections or keys of a name.                          *)
ConfigMeansItsText ==
    AtStart =>
       \A lines \in Samples :
          /\ LoadsByIndent(lines)
          /\ SurvivesSaving(lines)
          /\ load(lines) # NoConfig /\ StartsFlush(lines) =>
                \A section, key \in SampleKeys : GetsTheLast(lines, section, key)
=============================================================================
