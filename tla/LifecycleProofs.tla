--------------------------- MODULE LifecycleProofs ---------------------------
(***************************************************************************)
(* What holds of Lifecycle for any number of processes, worker threads and *)
(* configuration files.  The invariant says for every stage of main what   *)
(* the process then holds: LOCK from the opening of the database to its    *)
(* closing, the port from Listen to Unlisten, the pid file, if nobody else *)
(* was there to touch it, from WritePidfile to RemovePidfile.  Each holder *)
(* of a lock or port is a process in such a stage; the database is held in *)
(* all the stages in which the port is.                                    *)
(***************************************************************************)
EXTENDS Lifecycle, SequenceTheorems, WellFoundedInduction, TLAPS

Owning == {"net", "listen", "pools", "loop", "unlisten", "stop writer",
           "stop reader", "close"}
Listening == {"pools", "loop", "unlisten"}
Written == Owning \cup {"open", "log", "remove"}

(* The tables have an entry for whatever a configuration names.             *)
Known ==
    /\ \A c \in Configs : /\ c.pidfile \in DOMAIN pidfile
                          /\ c.work_dir \in DOMAIN lock /\ c.port \in DOMAIN port
    /\ \A p \in Pids : /\ conf[p] \in Configs \cup {NoConfig}
                       /\ Alive(p) => conf[p] \in Configs

LocksMatch ==
    /\ \A d \in DOMAIN lock : lock[d] # Nobody => pc[lock[d]] \in Owning
    /\ \A p \in Pids : pc[p] \in Owning => lock[Dir(p)] = p

PortsMatch == \A n \in DOMAIN port : port[n] # Nobody => pc[port[n]] \in Listening

(* A process that has not met another is the only one while it runs.        *)
Alone == \A p \in Pids \ met : Alive(p) => \A q \in Pids : Alive(q) => q = p

PidfilesMatch ==
    \A p \in Pids \ met :
       pc[p] \in Written /\ PidPath(p) # "" => pidfile[PidPath(p)] = p

Inv == TypeOK /\ Known /\ LocksMatch /\ PortsMatch /\ Alone /\ PidfilesMatch

-----------------------------------------------------------------------------
LEMMA InitInv == Init => Inv
  <1> SUFFICES ASSUME Init PROVE Inv
    OBVIOUS
  <1> USE DEF Init
  <1>1. \A p \in Pids : pc[p] = "none" /\ ~Alive(p)
    BY DEF Alive, Over
  <1>2. Known
    BY <1>1 DEF Known, Unreadable
  <1>3. TypeOK
    BY <1>1 DEF TypeOK, Stages, Over, WorkerStages, NoThreads
  <1> QED
    BY <1>1, <1>2, <1>3 DEF Inv, LocksMatch, PortsMatch, Alone, PidfilesMatch,
       Written, Owning

(* A process ends: its lock and port go back, those of the others stay.     *)
LEMMA EndsKeeps ==
    ASSUME Inv, NEW p \in Pids, Alive(p), NEW how \in Over, Ends(p, how),
           pidfile' = pidfile \/ (PidfileBecomes(p, Nobody) /\ pc[p] = "remove")
    PROVE  Inv'
  <1> USE DEF Inv
  <1>1. /\ pc' = [pc EXCEPT ![p] = how] /\ pc \in [Pids -> Stages]
        /\ how \in Stages /\ ~(how \in Written) /\ ~(how \in Listening)
        /\ conf' = conf /\ met' = met
        /\ \A q \in Pids : Alive(q)' => Alive(q) /\ q # p
    BY DEF Ends, Goto, TypeOK, Stages, Over, Written, Owning, Listening, Alive
  <1>2. /\ DOMAIN lock' = DOMAIN lock /\ DOMAIN port' = DOMAIN port
        /\ \A d \in DOMAIN lock : lock'[d] = IF lock[d] = p THEN Nobody ELSE lock[d]
        /\ \A n \in DOMAIN port : port'[n] = IF port[n] = p THEN Nobody ELSE port[n]
    BY DEF Ends, Freed
  <1>3. /\ DOMAIN pidfile' = DOMAIN pidfile
        /\ pidfile' \in [DOMAIN pidfile -> Pids \cup {Nobody}]
    BY DEF PidfileBecomes, TypeOK
  <1>4. Known'
    BY <1>1, <1>2, <1>3 DEF Known
  <1>5. TypeOK'
    <2>1. /\ lock' \in [DOMAIN lock' -> Pids \cup {Nobody}]
          /\ port' \in [DOMAIN port' -> Pids \cup {Nobody}]
      BY DEF Ends, Freed, TypeOK
    <2>2. /\ at' \in [Pids -> [Workers -> WorkerStages]]
          /\ \A q \in Pids : at'[q] = IF q = p THEN NoThreads ELSE at[q]
      BY DEF Ends, TypeOK, NoThreads, WorkerStages
    <2>3. \A q \in Pids : \A v, w \in Workers :
             {at'[q][v], at'[q][w]} \subseteq {"log", "stuck"} => v = w
      <3> TAKE q \in Pids
      <3> TAKE v, w \in Workers
      <3>1. CASE q = p
        BY <3>1, <2>2 DEF NoThreads
      <3>2. CASE q # p
        BY <3>2, <2>2 DEF TypeOK
      <3> QED
        BY <3>1, <3>2
    <2>4. \A q \in Pids : Alive(q)' =>
             /\ PidPath(q)' \in DOMAIN pidfile'
             /\ Dir(q)' \in DOMAIN lock' /\ Port(q)' \in DOMAIN port'
      BY <1>1, <1>2, <1>3 DEF TypeOK, PidPath, Dir, Port
    <2>5. pc' \in [Pids -> Stages] /\ quit' \subseteq Pids /\ met' \subseteq Pids
      BY <1>1 DEF Ends, TypeOK
    <2> QED
      BY <1>3, <2>1, <2>2, <2>3, <2>4, <2>5 DEF TypeOK
  <1>6. LocksMatch'
    <2>1. \A d \in DOMAIN lock' : lock'[d] # Nobody => pc'[lock'[d]] \in Owning
      BY <1>1, <1>2 DEF LocksMatch, TypeOK
    <2>2. \A q \in Pids : pc'[q] \in Owning => lock'[Dir(q)'] = q
      <3> SUFFICES ASSUME NEW q \in Pids, pc'[q] \in Owning PROVE lock'[Dir(q)'] = q
        OBVIOUS
      <3>1. q # p /\ pc[q] \in Owning /\ Dir(q)' = Dir(q)
        BY <1>1 DEF Owning, Written, Dir
      <3>2. Alive(q)
        BY <3>1 DEF Alive, Owning, Over
      <3>3. Dir(q) \in DOMAIN lock /\ lock[Dir(q)] = q
        BY <3>1, <3>2 DEF TypeOK, LocksMatch
      <3> QED
        BY <1>2, <3>1, <3>3
    <2> QED
      BY <2>1, <2>2 DEF LocksMatch
  <1>7. PortsMatch'
    BY <1>1, <1>2 DEF PortsMatch, TypeOK
  <1>8. Alone'
    BY <1>1 DEF Alone
  <1>9. PidfilesMatch'
    <2> SUFFICES ASSUME NEW q \in Pids \ met, pc'[q] \in Written, PidPath(q) # ""
                 PROVE  pidfile'[PidPath(q)] = q
      BY <1>1 DEF PidfilesMatch, PidPath
    <2>1. q # p /\ pc[q] \in Written /\ Alive(q)
      BY <1>1 DEF Alive, Written, Owning, Over
    <2>2. FALSE
      BY <2>1 DEF Alone
    <2> QED
      BY <2>2
  <1> QED
    BY <1>4, <1>5, <1>6, <1>7, <1>8, <1>9

(* main moves on to another stage, and what it holds changes with it: the   *)
(* facts common to all the steps of a process that goes on.                 *)
LEMMA MovesOn ==
    ASSUME Inv, NEW p \in Pids, Alive(p), NEW stage \in Stages \ Over,
           Goto(p, stage), UNCHANGED <<conf, quit, met>>
    PROVE  /\ pc' \in [Pids -> Stages] /\ quit' \subseteq Pids /\ met' \subseteq Pids
           /\ pc'[p] = stage /\ \A q \in Pids \ {p} : pc'[q] = pc[q]
           /\ \A q \in Pids : /\ Alive(q)' <=> Alive(q)
                               /\ Dir(q)' = Dir(q) /\ PidPath(q)' = PidPath(q)
                               /\ Port(q)' = Port(q)
           /\ Alone'
  <1> USE DEF Inv
  <1>1. pc' = [pc EXCEPT ![p] = stage] /\ pc \in [Pids -> Stages]
    BY DEF Goto, TypeOK
  <1>2. \A q \in Pids : /\ Alive(q)' <=> Alive(q)
                        /\ Dir(q)' = Dir(q) /\ PidPath(q)' = PidPath(q)
                        /\ Port(q)' = Port(q)
    BY <1>1 DEF Alive, Dir, PidPath, Port
  <1> QED
    BY <1>1, <1>2 DEF TypeOK, Alone

(* Types and tables, when the tables keep their domains and the threads are *)
(* as they were.                                                            *)
LEMMA TypesKept ==
    ASSUME Inv, NEW p \in Pids, Alive(p), NEW stage \in Stages \ Over,
           Goto(p, stage), UNCHANGED <<conf, quit, met, at>>,
           DOMAIN pidfile' = DOMAIN pidfile, DOMAIN lock' = DOMAIN lock,
           DOMAIN port' = DOMAIN port,
           pidfile' \in [DOMAIN pidfile -> Pids \cup {Nobody}],
           lock' \in [DOMAIN lock -> Pids \cup {Nobody}],
           port' \in [DOMAIN port -> Pids \cup {Nobody}]
    PROVE  TypeOK' /\ Known'
  <1>1. TypeOK'
    BY MovesOn DEF Inv, TypeOK
  <1>2. Known'
    BY MovesOn DEF Inv, Known
  <1> QED
    BY <1>1, <1>2

(* A table after one entry was given to p, or to nobody.                    *)
LEMMA Entry ==
    ASSUME NEW table, table \in [DOMAIN table -> Pids \cup {Nobody}], NEW x,
           NEW q \in Pids \cup {Nobody}
    PROVE  LET after == [table EXCEPT ![x] = q]
           IN  /\ DOMAIN after = DOMAIN table
               /\ after \in [DOMAIN table -> Pids \cup {Nobody}]
               /\ \A y \in DOMAIN table : after[y] = IF y = x THEN q ELSE table[y]
  OBVIOUS

LEMMA FreedTable ==
    ASSUME NEW table, table \in [DOMAIN table -> Pids \cup {Nobody}], NEW p \in Pids
    PROVE  /\ DOMAIN Freed(table, p) = DOMAIN table
           /\ Freed(table, p) \in [DOMAIN table -> Pids \cup {Nobody}]
           /\ \A x \in DOMAIN table :
                 Freed(table, p)[x] = IF table[x] = p THEN Nobody ELSE table[x]
  BY DEF Freed

(* What is kept when the table is and the stages that matter to it are.      *)
LEMMA LocksKept ==
    ASSUME Inv, lock' = lock, \A q \in Pids : Dir(q)' = Dir(q),
           \A q \in Pids : pc'[q] \in Owning <=> pc[q] \in Owning
    PROVE  LocksMatch'
  <1>1. \A d \in DOMAIN lock : lock[d] # Nobody => lock[d] \in Pids
    BY DEF Inv, TypeOK
  <1> QED
    BY <1>1 DEF Inv, LocksMatch

LEMMA PortsKept ==
    ASSUME Inv, port' = port,
           \A q \in Pids : pc'[q] \in Listening <=> pc[q] \in Listening
    PROVE  PortsMatch'
  <1>1. \A n \in DOMAIN port : port[n] # Nobody => port[n] \in Pids
    BY DEF Inv, TypeOK
  <1> QED
    BY <1>1 DEF Inv, PortsMatch

LEMMA PidfilesKept ==
    ASSUME Inv, pidfile' = pidfile, met' = met,
           \A q \in Pids : PidPath(q)' = PidPath(q),
           \A q \in Pids : pc'[q] \in Written => pc[q] \in Written
    PROVE  PidfilesMatch'
  BY DEF Inv, PidfilesMatch

LEMMA StartKeeps == ASSUME Inv, NEW p \in Pids, Start(p) PROVE Inv'
  <1> USE DEF Inv
  <1> DEFINE stage == IF conf[p] = NoConfig THEN "exited" ELSE "init"
             others == {q \in Pids : Alive(q)}
  <1>1. /\ pc[p] = "none" /\ pc' = [pc EXCEPT ![p] = stage] /\ stage \in Stages
        /\ met' = IF others = {} THEN met ELSE met \cup others \cup {p}
        /\ ~(stage \in Written) /\ ~(stage \in Listening)
        /\ UNCHANGED <<conf, quit, at, pidfile, lock, port>>
    BY DEF Start, files, Goto, Stages, Over, Written, Owning, Listening
  <1> HIDE DEF stage, others
  <1>2. /\ \A q \in Pids \ {p} : pc'[q] = pc[q]
        /\ pc'[p] = stage /\ pc' \in [Pids -> Stages]
    BY <1>1 DEF TypeOK
  <1>3. \A q \in Pids : /\ q # p => (Alive(q)' <=> Alive(q))
                        /\ Dir(q)' = Dir(q) /\ PidPath(q)' = PidPath(q)
                        /\ Port(q)' = Port(q)
    BY <1>1, <1>2 DEF Alive, Dir, PidPath, Port
  <1>4. Alive(p)' => conf[p] \in Configs
    BY <1>1, <1>2 DEF Alive, stage, Known, Over
  <1>5. Known'
    BY <1>1, <1>3, <1>4 DEF Known
  <1>6. TypeOK'
    <2>1. \A q \in Pids : Alive(q)' =>
             /\ PidPath(q) \in DOMAIN pidfile /\ Dir(q) \in DOMAIN lock
             /\ Port(q) \in DOMAIN port
      BY <1>3, <1>4 DEF Known, TypeOK, PidPath, Dir, Port
    <2>2. met' \subseteq Pids
      BY <1>1 DEF TypeOK, others
    <2> QED
      BY <1>1, <1>2, <1>3, <2>1, <2>2 DEF TypeOK
  <1>7. \A q \in Pids : pc'[q] \in Written \cup Listening =>
           q # p /\ pc'[q] = pc[q] /\ Alive(q)
    BY <1>1, <1>2 DEF Alive, Written, Listening, Owning, Over
  <1>8. \A q \in Pids : pc[q] \in Written \cup Listening => pc'[q] = pc[q]
    BY <1>1, <1>2 DEF Written, Listening, Owning
  <1>9. LocksMatch' /\ PortsMatch'
    BY <1>1, <1>3, <1>7, <1>8 DEF LocksMatch, PortsMatch, TypeOK, Written
  <1>10. Alone'
    BY <1>1, <1>2, <1>3 DEF Alone, others
  <1>11. PidfilesMatch'
    BY <1>1, <1>3, <1>7 DEF PidfilesMatch
  <1> QED
    BY <1>5, <1>6, <1>9, <1>10, <1>11

(* A step of main between two stages in which it holds the same.            *)
SameHoldings(p, stage) ==
    /\ pc[p] \in Owning <=> stage \in Owning
    /\ pc[p] \in Listening <=> stage \in Listening
    /\ stage \in Written => pc[p] \in Written

LEMMA StageKeeps ==
    ASSUME Inv, NEW p \in Pids, Alive(p), NEW stage \in Stages \ Over,
           SameHoldings(p, stage), Goto(p, stage), UNCHANGED <<conf, quit, at, files, met>>
    PROVE  Inv'
  <1> USE DEF Inv, files
  <1>1. TypeOK' /\ Known'
    BY TypesKept DEF TypeOK
  <1>2. \A q \in Pids : /\ pc[q] \in Owning <=> pc'[q] \in Owning
                        /\ pc[q] \in Listening <=> pc'[q] \in Listening
                        /\ pc'[q] \in Written => pc[q] \in Written
    BY MovesOn DEF SameHoldings
  <1>3. \A q \in Pids : Dir(q)' = Dir(q) /\ PidPath(q)' = PidPath(q)
    BY DEF Dir, PidPath
  <1>4. LocksMatch' /\ PortsMatch' /\ PidfilesMatch'
    BY <1>2, <1>3, LocksKept, PortsKept, PidfilesKept
  <1> QED
    BY <1>1, <1>4, MovesOn

LEMMA QuietSteps ==
    ASSUME Inv, NEW p \in Pids,
           \/ InstallHandlers(p) \/ LeaveLoop(p) \/ WaitFails(p)
           \/ StopWriter(p) \/ StopReader(p) \/ LogExit(p)
    PROVE  Inv'
  <1> USE DEF Alive, Over, Stages, SameHoldings, Owning, Listening, Written
  <1>1. CASE InstallHandlers(p)
    BY <1>1, StageKeeps DEF InstallHandlers
  <1>2. CASE LeaveLoop(p)
    BY <1>2, StageKeeps DEF LeaveLoop
  <1>3. CASE WaitFails(p)
    BY <1>3, StageKeeps DEF WaitFails
  <1>4. CASE StopWriter(p)
    BY <1>4, StageKeeps DEF StopWriter
  <1>5. CASE StopReader(p)
    BY <1>5, StageKeeps DEF StopReader
  <1>6. CASE LogExit(p)
    BY <1>6, StageKeeps DEF LogExit
  <1> QED
    BY <1>1, <1>2, <1>3, <1>4, <1>5, <1>6

-----------------------------------------------------------------------------
(* The pid file.                                                            *)
LEMMA PidfileTable ==
    ASSUME Inv, NEW p \in Pids, NEW q \in Pids \cup {Nobody}, PidfileBecomes(p, q)
    PROVE  /\ DOMAIN pidfile' = DOMAIN pidfile
           /\ pidfile' \in [DOMAIN pidfile -> Pids \cup {Nobody}]
           /\ Alive(p) /\ PidPath(p) # "" => pidfile'[PidPath(p)] = q
  BY Entry DEF PidfileBecomes, Inv, TypeOK

LEMMA RemoveOldPidfileKeeps ==
    ASSUME Inv, NEW p \in Pids, RemoveOldPidfile(p) PROVE Inv'
  <1> USE DEF Inv, RemoveOldPidfile
  <1>1. Alive(p) /\ "pid" \in Stages \ Over
    BY DEF Alive, Over, Stages
  <1>2. /\ DOMAIN pidfile' = DOMAIN pidfile
        /\ pidfile' \in [DOMAIN pidfile -> Pids \cup {Nobody}]
    BY PidfileTable
  <1>3. TypeOK' /\ Known'
    BY <1>1, <1>2, TypesKept DEF TypeOK
  <1>4. \A q \in Pids : /\ pc[q] \in Owning <=> pc'[q] \in Owning
                        /\ pc[q] \in Listening <=> pc'[q] \in Listening
    BY <1>1, MovesOn DEF Owning, Listening
  <1>5. \A q \in Pids : Dir(q)' = Dir(q) /\ PidPath(q)' = PidPath(q)
    BY DEF Dir, PidPath
  <1>6. LocksMatch' /\ PortsMatch'
    BY <1>4, <1>5, LocksKept, PortsKept
  <1>7. PidfilesMatch'
    <2> SUFFICES ASSUME NEW q \in Pids \ met, pc'[q] \in Written PROVE FALSE
      BY DEF PidfilesMatch
    <2>1. q # p /\ Alive(q)
      BY <1>1, MovesOn DEF Written, Owning, Alive, Over
    <2> QED
      BY <1>1, <2>1 DEF Alone
  <1> QED
    BY <1>1, <1>3, <1>6, <1>7, MovesOn

LEMMA WritePidfileKeeps ==
    ASSUME Inv, NEW p \in Pids, WritePidfile(p) PROVE Inv'
  <1> USE DEF Inv, WritePidfile
  <1>1. Alive(p) /\ "open" \in Stages \ Over
    BY DEF Alive, Over, Stages
  <1>2. /\ DOMAIN pidfile' = DOMAIN pidfile
        /\ pidfile' \in [DOMAIN pidfile -> Pids \cup {Nobody}]
        /\ PidPath(p) # "" => pidfile'[PidPath(p)] = p
    BY <1>1, PidfileTable
  <1>3. TypeOK' /\ Known'
    BY <1>1, <1>2, TypesKept DEF TypeOK
  <1>4. \A q \in Pids : /\ pc[q] \in Owning <=> pc'[q] \in Owning
                        /\ pc[q] \in Listening <=> pc'[q] \in Listening
    BY <1>1, MovesOn DEF Owning, Listening
  <1>5. \A q \in Pids : Dir(q)' = Dir(q) /\ PidPath(q)' = PidPath(q)
    BY DEF Dir, PidPath
  <1>6. LocksMatch' /\ PortsMatch'
    BY <1>4, <1>5, LocksKept, PortsKept
  <1>7. PidfilesMatch'
    <2> SUFFICES ASSUME NEW q \in Pids \ met, pc'[q] \in Written, PidPath(q) # ""
                 PROVE  pidfile'[PidPath(q)] = q
      BY <1>5 DEF PidfilesMatch
    <2>1. CASE q = p
      BY <2>1, <1>2
    <2>2. CASE q # p
      <3>1. Alive(q)
        BY <1>1, <2>2, MovesOn DEF Written, Owning, Alive, Over
      <3> QED
        BY <1>1, <2>2, <3>1 DEF Alone
    <2> QED
      BY <2>1, <2>2
  <1> QED
    BY <1>1, <1>3, <1>6, <1>7, MovesOn

-----------------------------------------------------------------------------
(* LOCK and the port.                                                       *)
LEMMA OpenDbKeeps == ASSUME Inv, NEW p \in Pids, OpenDb(p) PROVE Inv'
  <1> USE DEF Inv, OpenDb
  <1>1. Alive(p) /\ "net" \in Stages \ Over /\ Nobody \notin Pids
    BY LifecycleAssumption DEF Alive, Over, Stages
  <1>2. /\ DOMAIN lock' = DOMAIN lock /\ lock' \in [DOMAIN lock -> Pids \cup {Nobody}]
        /\ \A d \in DOMAIN lock : lock'[d] = IF d = Dir(p) THEN p ELSE lock[d]
    BY Entry DEF TypeOK
  <1>3. TypeOK' /\ Known'
    BY <1>1, <1>2, TypesKept DEF TypeOK
  <1>4. \A q \in Pids : /\ pc'[q] \in Owning <=> pc[q] \in Owning \/ q = p
                        /\ pc[q] \in Listening <=> pc'[q] \in Listening
                        /\ pc'[q] \in Written => pc[q] \in Written
    BY <1>1, MovesOn DEF Owning, Listening, Written
  <1>5. \A q \in Pids : pc[q] \in Owning => Alive(q)
    BY DEF Owning, Alive, Over
  <1>6. \A q \in Pids : Dir(q)' = Dir(q) /\ PidPath(q)' = PidPath(q)
    BY DEF Dir, PidPath
  <1>7. LocksMatch'
    BY <1>1, <1>2, <1>4, <1>5, <1>6 DEF LocksMatch, TypeOK
  <1>8. PortsMatch' /\ PidfilesMatch'
    BY <1>4, <1>6, PortsKept, PidfilesKept
  <1> QED
    BY <1>1, <1>3, <1>7, <1>8, MovesOn

LEMMA ListenKeeps == ASSUME Inv, NEW p \in Pids, Listen(p) PROVE Inv'
  <1> USE DEF Inv, Listen
  <1>1. Alive(p) /\ "pools" \in Stages \ Over /\ Nobody \notin Pids
    BY LifecycleAssumption DEF Alive, Over, Stages
  <1>2. /\ DOMAIN port' = DOMAIN port /\ port' \in [DOMAIN port -> Pids \cup {Nobody}]
        /\ \A n \in DOMAIN port : port'[n] = IF n = Port(p) THEN p ELSE port[n]
    BY Entry DEF TypeOK
  <1>3. TypeOK' /\ Known'
    BY <1>1, <1>2, TypesKept DEF TypeOK
  <1>4. \A q \in Pids : /\ pc'[q] \in Owning <=> pc[q] \in Owning
                        /\ pc'[q] \in Listening <=> pc[q] \in Listening \/ q = p
                        /\ pc'[q] \in Written => pc[q] \in Written
    BY <1>1, MovesOn DEF Owning, Listening, Written
  <1>5. \A q \in Pids : Dir(q)' = Dir(q) /\ PidPath(q)' = PidPath(q)
    BY DEF Dir, PidPath
  <1>6. PortsMatch'
    BY <1>1, <1>2, <1>4 DEF PortsMatch, TypeOK
  <1>7. LocksMatch' /\ PidfilesMatch'
    BY <1>4, <1>5, LocksKept, PidfilesKept
  <1> QED
    BY <1>1, <1>3, <1>6, <1>7, MovesOn

LEMMA UnlistenKeeps == ASSUME Inv, NEW p \in Pids, Unlisten(p) PROVE Inv'
  <1> USE DEF Inv, Unlisten
  <1>1. Alive(p) /\ "stop writer" \in Stages \ Over
    BY DEF Alive, Over, Stages
  <1>2. /\ DOMAIN port' = DOMAIN port /\ port' \in [DOMAIN port -> Pids \cup {Nobody}]
        /\ \A n \in DOMAIN port : port'[n] = IF port[n] = p THEN Nobody ELSE port[n]
    BY DEF TypeOK, Freed
  <1>3. TypeOK' /\ Known'
    BY <1>1, <1>2, TypesKept DEF TypeOK
  <1>4. \A q \in Pids : /\ pc'[q] \in Owning <=> pc[q] \in Owning
                        /\ pc'[q] \in Listening <=> pc[q] \in Listening /\ q # p
                        /\ pc'[q] \in Written => pc[q] \in Written
    BY <1>1, MovesOn DEF Owning, Listening, Written
  <1>5. \A q \in Pids : Dir(q)' = Dir(q) /\ PidPath(q)' = PidPath(q)
    BY DEF Dir, PidPath
  <1>6. PortsMatch'
    <2> SUFFICES ASSUME NEW n \in DOMAIN port, port'[n] # Nobody
                 PROVE  pc'[port'[n]] \in Listening
      BY <1>2 DEF PortsMatch
    <2>1. port[n] \in Pids \ {p} /\ port'[n] = port[n] /\ port[n] # Nobody
      BY <1>2 DEF TypeOK
    <2> QED
      BY <1>4, <2>1 DEF PortsMatch
  <1>7. LocksMatch' /\ PidfilesMatch'
    BY <1>4, <1>5, LocksKept, PidfilesKept
  <1> QED
    BY <1>1, <1>3, <1>6, <1>7, MovesOn

LEMMA CloseDbKeeps == ASSUME Inv, NEW p \in Pids, CloseDb(p) PROVE Inv'
  <1> USE DEF Inv, CloseDb
  <1>1. Alive(p) /\ "log" \in Stages \ Over
    BY DEF Alive, Over, Stages
  <1>2. /\ DOMAIN lock' = DOMAIN lock /\ lock' \in [DOMAIN lock -> Pids \cup {Nobody}]
        /\ \A d \in DOMAIN lock : lock'[d] = IF lock[d] = p THEN Nobody ELSE lock[d]
    BY FreedTable DEF TypeOK
  <1>3. TypeOK' /\ Known'
    BY <1>1, <1>2, TypesKept DEF TypeOK
  <1>4. \A q \in Pids : /\ pc'[q] \in Owning <=> pc[q] \in Owning /\ q # p
                        /\ pc'[q] \in Listening <=> pc[q] \in Listening
                        /\ pc'[q] \in Written => pc[q] \in Written
    BY <1>1, MovesOn DEF Owning, Listening, Written
  <1>5. \A q \in Pids : pc[q] \in Owning => Dir(q) \in DOMAIN lock
    BY DEF Owning, Alive, Over, TypeOK
  <1>6. \A q \in Pids : Dir(q)' = Dir(q) /\ PidPath(q)' = PidPath(q)
    BY DEF Dir, PidPath
  <1>7. LocksMatch'
    BY <1>1, <1>2, <1>4, <1>5, <1>6 DEF LocksMatch, TypeOK
  <1>8. PortsMatch' /\ PidfilesMatch'
    BY <1>4, <1>6, PortsKept, PidfilesKept
  <1> QED
    BY <1>1, <1>3, <1>7, <1>8, MovesOn

-----------------------------------------------------------------------------
(* Steps that end the process.                                              *)
LEMMA EndingSteps ==
    ASSUME Inv, NEW p \in Pids,
           \/ StartFails(p) \/ DbIsBusy(p) \/ PortIsBusy(p)
           \/ RemovePidfile(p) \/ Kill(p)
    PROVE  Inv'
  <1> USE DEF Over
  <1>1. CASE StartFails(p)
    BY <1>1, EndsKeeps DEF StartFails, Alive
  <1>2. CASE DbIsBusy(p)
    BY <1>2, EndsKeeps DEF DbIsBusy, Alive
  <1>3. CASE PortIsBusy(p)
    BY <1>3, EndsKeeps DEF PortIsBusy, Alive
  <1>4. CASE RemovePidfile(p)
    BY <1>4, EndsKeeps DEF RemovePidfile, Alive
  <1>5. CASE Kill(p)
    BY <1>5, EndsKeeps DEF Kill, Alive
  <1> QED
    BY <1>1, <1>2, <1>3, <1>4, <1>5

(* Steps of the threads, and the signal.                                    *)
LEMMA ThreadsOnly ==
    ASSUME Inv, UNCHANGED <<conf, pc, files, met>>, quit' \subseteq Pids,
           at' \in [Pids -> [Workers -> WorkerStages]],
           \A p \in Pids : \A v, w \in Workers :
              {at'[p][v], at'[p][w]} \subseteq {"log", "stuck"} => v = w
    PROVE  Inv'
  <1>1. TypeOK'
    BY DEF Inv, TypeOK, files, Alive, PidPath, Dir, Port
  <1>2. Known' /\ LocksMatch' /\ PortsMatch' /\ Alone' /\ PidfilesMatch'
    BY DEF Inv, files, Known, LocksMatch, PortsMatch, Alone, PidfilesMatch,
           Alive, PidPath, Dir
  <1> QED
    BY <1>1, <1>2 DEF Inv

LEMMA TerminateKeeps == ASSUME Inv, NEW p \in Pids, Terminate(p) PROVE Inv'
  BY ThreadsOnly DEF Terminate, Inv, TypeOK

(* A thread that comes to hold the mutex found it free, or held it already. *)
LEMMA WorkKeeps == ASSUME Inv, NEW p \in Pids, NEW w \in Workers, Work(p, w) PROVE Inv'
  <1> DEFINE Holding == {"log", "stuck"}
  <1>1. PICK from, to : /\ Moves(p, w, from, to) /\ to \in WorkerStages
                        /\ to \in Holding => ~LogBusy(p) \/ from = {"log"}
    BY DEF Work, WorkerLogs, WorkerLogged, WorkerPops, WorkerPushes, WorkerDies,
           WorkerStages
  <1>2. /\ at[p][w] \in from /\ UNCHANGED <<conf, pc, quit, files, met>>
        /\ at' \in [Pids -> [Workers -> WorkerStages]]
        /\ at'[p][w] = to
        /\ \A q \in Pids, v \in Workers : ~(q = p /\ v = w) => at'[q][v] = at[q][v]
    BY <1>1 DEF Moves, Inv, TypeOK
  <1>3. \A q \in Pids : \A u, v \in Workers :
           {at'[q][u], at'[q][v]} \subseteq Holding => u = v
    <2> SUFFICES ASSUME NEW q \in Pids, NEW u \in Workers, NEW v \in Workers,
                        at'[q][u] \in Holding, at'[q][v] \in Holding, u # v
                 PROVE  FALSE
      OBVIOUS
    <2>1. \A x, y \in Workers : at[q][x] \in Holding /\ at[q][y] \in Holding => x = y
      BY DEF Inv, TypeOK
    <2>2. CASE q = p /\ w \in {u, v}
      <3>1. to \in Holding
        BY <1>2, <2>2
      <3>2. PICK x \in {u, v} : x # w /\ at[p][x] \in Holding
        BY <1>2, <2>2
      <3>3. LogBusy(p)
        BY <3>2 DEF LogBusy
      <3>4. at[p][w] = "log"
        BY <1>1, <1>2, <3>1, <3>3
      <3> QED
        BY <2>1, <2>2, <3>2, <3>4
    <2>3. CASE ~(q = p /\ w \in {u, v})
      BY <1>2, <2>1, <2>3
    <2> QED
      BY <2>2, <2>3
  <1>4. quit' \subseteq Pids
    BY <1>2 DEF Inv, TypeOK
  <1> QED
    BY <1>2, <1>3, <1>4, ThreadsOnly

LEMMA StartPoolsKeeps == ASSUME Inv, NEW p \in Pids, StartPools(p) PROVE Inv'
  <1> USE DEF Inv, StartPools, files
  <1>1. Alive(p) /\ "loop" \in Stages \ Over
    BY DEF Alive, Over, Stages
  <1>2. \A q \in Pids : /\ pc[q] \in Owning <=> pc'[q] \in Owning
                        /\ pc[q] \in Listening <=> pc'[q] \in Listening
                        /\ pc'[q] \in Written => pc[q] \in Written
    BY <1>1, MovesOn DEF Owning, Listening, Written
  <1>3. /\ at' \in [Pids -> [Workers -> WorkerStages]]
        /\ \A q \in Pids \ {p} : at'[q] = at[q]
        /\ \A w \in Workers : at'[p][w] \in {"init", "gone"}
    BY DEF TypeOK, WorkerStages
  <1>4. \A q \in Pids : \A v, w \in Workers :
           {at'[q][v], at'[q][w]} \subseteq {"log", "stuck"} => v = w
    <2> TAKE q \in Pids
    <2> TAKE v, w \in Workers
    <2>1. CASE q = p
      BY <2>1, <1>3
    <2>2. CASE q # p
      BY <2>2, <1>3 DEF TypeOK
    <2> QED
      BY <2>1, <2>2
  <1>5. TypeOK'
    BY <1>1, <1>3, <1>4, MovesOn DEF TypeOK
  <1>6. Known'
    BY <1>1, MovesOn DEF Known
  <1>7. \A q \in Pids : Dir(q)' = Dir(q) /\ PidPath(q)' = PidPath(q)
    BY DEF Dir, PidPath
  <1>8. LocksMatch' /\ PortsMatch' /\ PidfilesMatch'
    BY <1>2, <1>7, LocksKept, PortsKept, PidfilesKept
  <1> QED
    BY <1>1, <1>5, <1>6, <1>8, MovesOn

LEMMA NextInv == Inv /\ [Next]_vars => Inv'
  <1> SUFFICES ASSUME Inv, [Next]_vars PROVE Inv'
    OBVIOUS
  <1>1. CASE UNCHANGED vars
    BY <1>1, ThreadsOnly DEF vars, files, Inv, TypeOK
  <1>2. ASSUME NEW p \in Pids, Start(p) PROVE Inv'
    BY <1>2, StartKeeps
  <1>3. ASSUME NEW p \in Pids, Startup(p) PROVE Inv'
    BY <1>3, RemoveOldPidfileKeeps, WritePidfileKeeps, EndingSteps, OpenDbKeeps,
       QuietSteps, ListenKeeps, StartPoolsKeeps DEF Startup
  <1>4. ASSUME NEW p \in Pids, Teardown(p) PROVE Inv'
    BY <1>4, QuietSteps, UnlistenKeeps, CloseDbKeeps, EndingSteps DEF Teardown
  <1>5. ASSUME NEW p \in Pids, WaitFails(p) \/ Terminate(p) \/ Kill(p) PROVE Inv'
    BY <1>5, QuietSteps, TerminateKeeps, EndingSteps
  <1>6. ASSUME NEW p \in Pids, NEW w \in Workers, Work(p, w) PROVE Inv'
    BY <1>6, WorkKeeps
  <1> QED
    BY <1>1, <1>2, <1>3, <1>4, <1>5, <1>6 DEF Next, Main

LEMMA Invariant == Spec => []Inv
  <1>1. Init => Inv
    BY InitInv
  <1>2. Inv /\ [Next]_vars => Inv'
    BY NextInv
  <1> QED
    BY <1>1, <1>2, PTL DEF Spec

-----------------------------------------------------------------------------
(* The types, and one thread at a time in a logger's mutex, whichever       *)
(* threads were cancelled while they held it.                               *)
THEOREM TypeCorrect == Spec => []TypeOK
  <1>1. Inv => TypeOK
    BY DEF Inv
  <1> QED
    BY <1>1, Invariant, PTL

(* Start-up opens the database before the port, and the teardown closes the *)
(* port before the database (geminidb-server.cpp:70-90, server.cpp:73-76):  *)
(* a process that can be connected to owns the data it serves.              *)
THEOREM ServersOwnTheirData == Spec => []ListenersOwnTheirData
  <1>1. Inv => ListenersOwnTheirData
    <2> SUFFICES ASSUME Inv, NEW n \in DOMAIN port, port[n] # Nobody
                 PROVE  lock[Dir(port[n])] = port[n]
      BY DEF ListenersOwnTheirData
    <2>1. port[n] \in Pids /\ pc[port[n]] \in Listening
      BY DEF Inv, TypeOK, PortsMatch
    <2> QED
      BY <2>1 DEF Inv, LocksMatch, Listening, Owning
  <1> QED
    BY <1>1, Invariant, PTL

(* The pid file of a server that never met another one outlasts its hold on *)
(* the database and on the port.                                            *)
THEOREM PidfileOutlasts == Spec => []PidfileStaysWhileHeld
  <1>1. Inv => PidfileStaysWhileHeld
    <2> SUFFICES ASSUME Inv, NEW p \in Pids \ met, PidPath(p) # "", Holds(p)
                 PROVE  pidfile[PidPath(p)] = p
      BY DEF PidfileStaysWhileHeld
    <2>1. pc[p] \in Owning \cup Listening
      BY LifecycleAssumption DEF Inv, Holds, LocksMatch, PortsMatch
    <2> QED
      BY <2>1 DEF Inv, PidfilesMatch, Written, Listening, Owning
  <1> QED
    BY <1>1, Invariant, PTL

(* Induction over sets of numbers.                                          *)
LEMMA NatSetInduction ==
    ASSUME NEW S, 0 \in S, \A k \in Nat : k \in S => k + 1 \in S
    PROVE  Nat \subseteq S
  <1> DEFINE T == Nat \ S
             R == OpToRel(<, Nat)
  <1>1. SUFFICES ASSUME T # {} PROVE FALSE
    OBVIOUS
  <1>2. \A x, y \in Nat : x < y => <<x, y>> \in R
    BY DEF OpToRel
  <1>3. PICK m \in T : \A y \in T : ~(<<y, m>> \in R)
    <2> HIDE DEF R
    <2>1. IsWellFoundedOn(R, Nat)
      BY NatLessThanWellFounded DEF R
    <2> HIDE DEF T
    <2>2. T \subseteq Nat
      BY DEF T
    <2> QED
      BY <1>1, <2>1, <2>2, WFMin
  <1>4. m \in Nat /\ m # 0 /\ m - 1 \in Nat /\ m - 1 < m
    OBVIOUS
  <1>5. m - 1 \notin T
    <2> HIDE DEF R, T
    <2> QED
      BY <1>2, <1>3, <1>4
  <1>6. m - 1 + 1 = m
    BY <1>4
  <1> QED
    BY <1>4, <1>5, <1>6

(* f is the function Place chooses, which exists.                           *)
IsPlaced(f, lines, n) ==
    f = [i \in 0..n |-> IF i = 0 THEN 0 ELSE IF lines[i] = Blank THEN f[i - 1] ELSE f[i - 1] + 1]

LEMMA PlacedExists ==
    ASSUME NEW lines, NEW n \in Nat
    PROVE  \E f : IsPlaced(f, lines, n)
  <1> DEFINE P(k) == \E f : IsPlaced(f, lines, k)
             S == {k \in Nat : P(k)}
             E(i, x) == IF lines[i] = Blank THEN x ELSE x + 1
             z == 0
  <1>1. P(0)
    <2> DEFINE f == [i \in 0..0 |-> z]
    <2>1. f = [i \in 0..0 |-> IF i = 0 THEN z ELSE E(i, f[i - 1])]
      OBVIOUS
    <2> HIDE DEF f
    <2> QED
      BY <2>1 DEF IsPlaced
  <1>2. ASSUME NEW k \in Nat, P(k) PROVE P(k + 1)
    <2>1. PICK f : f = [i \in 0..k |-> IF i = 0 THEN z ELSE E(i, f[i - 1])]
      BY <1>2 DEF IsPlaced
    <2> HIDE DEF E, z
    <2> DEFINE g == [i \in 0..k+1 |-> IF i = k+1 THEN E(k + 1, f[k]) ELSE f[i]]
               r == [i \in 0..k+1 |-> IF i = 0 THEN z ELSE E(i, g[i - 1])]
    <2>2. \A i \in 0..k+1 : g[i] = IF i = k+1 THEN E(k + 1, f[k]) ELSE f[i]
      OBVIOUS
    <2>3. DOMAIN g = 0..k+1 /\ g = [i \in DOMAIN g |-> g[i]]
      OBVIOUS
    <2> HIDE DEF g
    <2>4. \A i \in 0..k : i \in 0..k+1 /\ g[i] = f[i]
      BY <2>2
    <2>5. ASSUME NEW i \in 0..k+1
          PROVE  g[i] = IF i = 0 THEN z ELSE E(i, g[i - 1])
      <3>1. CASE i = k + 1
        <4>1. i # 0 /\ i - 1 = k /\ k \in 0..k
          BY <3>1
        <4> QED
          BY <2>2, <2>4, <3>1, <4>1
      <3>2. CASE i = 0
        <4>1. 0 \in 0..k
          OBVIOUS
        <4> QED
          BY <2>1, <2>4, <3>2, <4>1
      <3>3. CASE i # k + 1 /\ i # 0
        <4>1. i \in 0..k /\ i - 1 \in 0..k
          BY <3>3
        <4>2. f[i] = E(i, f[i - 1])
          BY <2>1, <3>3, <4>1
        <4> QED
          BY <2>4, <3>3, <4>1, <4>2
      <3> QED
        BY <3>1, <3>2, <3>3
    <2>6. g = r
      BY <2>3, <2>5
    <2> QED
      BY <2>6 DEF IsPlaced, E, z
  <1>3. n \in S
    <2> HIDE DEF P
    <2>1. 0 \in S /\ \A k \in Nat : k \in S => k + 1 \in S
      BY <1>1, <1>2
    <2> HIDE DEF S
    <2> QED
      BY <2>1, NatSetInduction
  <1> QED
    BY <1>3

PlacedOf(lines, n) == CHOOSE f : IsPlaced(f, lines, n)

LEMMA PlacedIs ==
    ASSUME NEW lines, NEW n \in Nat
    PROVE  LET f == PlacedOf(lines, n)
           IN  /\ IsPlaced(f, lines, n)
               /\ f[0] = 0
               /\ \A i \in 1..n : f[i] = IF lines[i] = Blank THEN f[i - 1] ELSE f[i - 1] + 1
  <1> DEFINE f == PlacedOf(lines, n)
             E(i, x) == IF lines[i] = Blank THEN x ELSE x + 1
             z == 0
  <1>1. IsPlaced(f, lines, n)
    BY PlacedExists, Zenon DEF PlacedOf
  <1> HIDE DEF f
  <1>2. f = [i \in 0..n |-> IF i = 0 THEN z ELSE E(i, f[i - 1])]
    BY <1>1 DEF IsPlaced
  <1> HIDE DEF E, z
  <1>3. f[0] = z
    BY <1>2
  <1>4. ASSUME NEW i \in 1..n PROVE f[i] = E(i, f[i - 1])
    <2>1. i \in 0..n /\ i # 0
      OBVIOUS
    <2> QED
      BY <1>2, <2>1
  <1> QED
    BY <1>1, <1>3, <1>4 DEF f, E, z

(* f climbs from the node a.                                                *)
IsClimbing(f, tree, a, n) ==
    f = [i \in 0..n |-> IF i = 0 THEN a ELSE Parent(tree, f[i - 1])]

LEMMA ClimbingExists ==
    ASSUME NEW tree, NEW a, NEW n \in Nat
    PROVE  \E f : IsClimbing(f, tree, a, n)
  <1> DEFINE P(k) == \E f : IsClimbing(f, tree, a, k)
             S == {k \in Nat : P(k)}
             E(i, x) == Parent(tree, x)
             z == a
  <1>1. P(0)
    <2> DEFINE f == [i \in 0..0 |-> z]
    <2>1. f = [i \in 0..0 |-> IF i = 0 THEN z ELSE E(i, f[i - 1])]
      OBVIOUS
    <2> HIDE DEF f
    <2> QED
      BY <2>1 DEF IsClimbing
  <1>2. ASSUME NEW k \in Nat, P(k) PROVE P(k + 1)
    <2>1. PICK f : f = [i \in 0..k |-> IF i = 0 THEN z ELSE E(i, f[i - 1])]
      BY <1>2 DEF IsClimbing
    <2> HIDE DEF E, z
    <2> DEFINE g == [i \in 0..k+1 |-> IF i = k+1 THEN E(k + 1, f[k]) ELSE f[i]]
               r == [i \in 0..k+1 |-> IF i = 0 THEN z ELSE E(i, g[i - 1])]
    <2>2. \A i \in 0..k+1 : g[i] = IF i = k+1 THEN E(k + 1, f[k]) ELSE f[i]
      OBVIOUS
    <2>3. DOMAIN g = 0..k+1 /\ g = [i \in DOMAIN g |-> g[i]]
      OBVIOUS
    <2> HIDE DEF g
    <2>4. \A i \in 0..k : i \in 0..k+1 /\ g[i] = f[i]
      BY <2>2
    <2>5. ASSUME NEW i \in 0..k+1
          PROVE  g[i] = IF i = 0 THEN z ELSE E(i, g[i - 1])
      <3>1. CASE i = k + 1
        <4>1. i # 0 /\ i - 1 = k /\ k \in 0..k
          BY <3>1
        <4> QED
          BY <2>2, <2>4, <3>1, <4>1
      <3>2. CASE i = 0
        <4>1. 0 \in 0..k
          OBVIOUS
        <4> QED
          BY <2>1, <2>4, <3>2, <4>1
      <3>3. CASE i # k + 1 /\ i # 0
        <4>1. i \in 0..k /\ i - 1 \in 0..k
          BY <3>3
        <4>2. f[i] = E(i, f[i - 1])
          BY <2>1, <3>3, <4>1
        <4> QED
          BY <2>4, <3>3, <4>1, <4>2
      <3> QED
        BY <3>1, <3>2, <3>3
    <2>6. g = r
      BY <2>3, <2>5
    <2> QED
      BY <2>6 DEF IsClimbing, E, z
  <1>3. n \in S
    <2> HIDE DEF P
    <2>1. 0 \in S /\ \A k \in Nat : k \in S => k + 1 \in S
      BY <1>1, <1>2
    <2> HIDE DEF S
    <2> QED
      BY <2>1, NatSetInduction
  <1> QED
    BY <1>3

ClimbingOf(tree, a, n) == CHOOSE f : IsClimbing(f, tree, a, n)

LEMMA ClimbingIs ==
    ASSUME NEW tree, NEW a, NEW n \in Nat
    PROVE  LET f == ClimbingOf(tree, a, n)
           IN  /\ IsClimbing(f, tree, a, n)
               /\ f[0] = a
               /\ \A i \in 1..n : f[i] = Parent(tree, f[i - 1])
  <1> DEFINE f == ClimbingOf(tree, a, n)
             E(i, x) == Parent(tree, x)
             z == a
  <1>1. IsClimbing(f, tree, a, n)
    BY ClimbingExists, Zenon DEF ClimbingOf
  <1> HIDE DEF f
  <1>2. f = [i \in 0..n |-> IF i = 0 THEN z ELSE E(i, f[i - 1])]
    BY <1>1 DEF IsClimbing
  <1> HIDE DEF E, z
  <1>3. f[0] = z
    BY <1>2
  <1>4. ASSUME NEW i \in 1..n PROVE f[i] = E(i, f[i - 1])
    <2>1. i \in 0..n /\ i # 0
      OBVIOUS
    <2> QED
      BY <1>2, <2>1
  <1> QED
    BY <1>1, <1>3, <1>4 DEF f, E, z

(* f reads line by line.                                                    *)
IsReading(f, lines, n) ==
    f = [i \in 0..n |-> IF i = 0 THEN Unread ELSE ReadLine(f[i - 1], lines[i])]

LEMMA ReadingExists ==
    ASSUME NEW lines, NEW n \in Nat
    PROVE  \E f : IsReading(f, lines, n)
  <1> DEFINE P(k) == \E f : IsReading(f, lines, k)
             S == {k \in Nat : P(k)}
             E(i, x) == ReadLine(x, lines[i])
             z == Unread
  <1>1. P(0)
    <2> DEFINE f == [i \in 0..0 |-> z]
    <2>1. f = [i \in 0..0 |-> IF i = 0 THEN z ELSE E(i, f[i - 1])]
      OBVIOUS
    <2> HIDE DEF f
    <2> QED
      BY <2>1 DEF IsReading
  <1>2. ASSUME NEW k \in Nat, P(k) PROVE P(k + 1)
    <2>1. PICK f : f = [i \in 0..k |-> IF i = 0 THEN z ELSE E(i, f[i - 1])]
      BY <1>2 DEF IsReading
    <2> HIDE DEF E, z
    <2> DEFINE g == [i \in 0..k+1 |-> IF i = k+1 THEN E(k + 1, f[k]) ELSE f[i]]
               r == [i \in 0..k+1 |-> IF i = 0 THEN z ELSE E(i, g[i - 1])]
    <2>2. \A i \in 0..k+1 : g[i] = IF i = k+1 THEN E(k + 1, f[k]) ELSE f[i]
      OBVIOUS
    <2>3. DOMAIN g = 0..k+1 /\ g = [i \in DOMAIN g |-> g[i]]
      OBVIOUS
    <2> HIDE DEF g
    <2>4. \A i \in 0..k : i \in 0..k+1 /\ g[i] = f[i]
      BY <2>2
    <2>5. ASSUME NEW i \in 0..k+1
          PROVE  g[i] = IF i = 0 THEN z ELSE E(i, g[i - 1])
      <3>1. CASE i = k + 1
        <4>1. i # 0 /\ i - 1 = k /\ k \in 0..k
          BY <3>1
        <4> QED
          BY <2>2, <2>4, <3>1, <4>1
      <3>2. CASE i = 0
        <4>1. 0 \in 0..k
          OBVIOUS
        <4> QED
          BY <2>1, <2>4, <3>2, <4>1
      <3>3. CASE i # k + 1 /\ i # 0
        <4>1. i \in 0..k /\ i - 1 \in 0..k
          BY <3>3
        <4>2. f[i] = E(i, f[i - 1])
          BY <2>1, <3>3, <4>1
        <4> QED
          BY <2>4, <3>3, <4>1, <4>2
      <3> QED
        BY <3>1, <3>2, <3>3
    <2>6. g = r
      BY <2>3, <2>5
    <2> QED
      BY <2>6 DEF IsReading, E, z
  <1>3. n \in S
    <2> HIDE DEF P
    <2>1. 0 \in S /\ \A k \in Nat : k \in S => k + 1 \in S
      BY <1>1, <1>2
    <2> HIDE DEF S
    <2> QED
      BY <2>1, NatSetInduction
  <1> QED
    BY <1>3

ReadingOf(lines, n) == CHOOSE f : IsReading(f, lines, n)

LEMMA ReadingIs ==
    ASSUME NEW lines, NEW n \in Nat
    PROVE  LET f == ReadingOf(lines, n)
           IN  /\ IsReading(f, lines, n)
               /\ f[0] = Unread
               /\ \A i \in 1..n : f[i] = ReadLine(f[i - 1], lines[i])
  <1> DEFINE f == ReadingOf(lines, n)
             E(i, x) == ReadLine(x, lines[i])
             z == Unread
  <1>1. IsReading(f, lines, n)
    BY ReadingExists, Zenon DEF ReadingOf
  <1> HIDE DEF f
  <1>2. f = [i \in 0..n |-> IF i = 0 THEN z ELSE E(i, f[i - 1])]
    BY <1>1 DEF IsReading
  <1> HIDE DEF E, z
  <1>3. f[0] = z
    BY <1>2
  <1>4. ASSUME NEW i \in 1..n PROVE f[i] = E(i, f[i - 1])
    <2>1. i \in 0..n /\ i # 0
      OBVIOUS
    <2> QED
      BY <1>2, <2>1
  <1> QED
    BY <1>1, <1>3, <1>4 DEF f, E, z

LEMMA PlaceIs == ASSUME NEW lines, Len(lines) \in Nat
                 PROVE  Place(lines) = PlacedOf(lines, Len(lines))
  BY DEF Place, PlacedOf, IsPlaced

LEMMA ClimbIs == ASSUME NEW tree, NEW a, NEW n \in Nat
                 PROVE  Climb(tree, a, n) = ClimbingOf(tree, a, n)[n]
  BY DEF Climb, ClimbingOf, IsClimbing

LEMMA LoadIs ==
    ASSUME NEW lines, Len(lines) \in Nat
    PROVE  LET st == ReadingOf(lines, Len(lines))[Len(lines)]
           IN  load(lines) = IF st.ok THEN st.tree ELSE NoConfig
  BY DEF load, ReadingOf, IsReading

LEMMA LineIs ==
    ASSUME NEW l \in Lines
    PROVE  /\ l.kind \in {"blank", "bad", "comment", "item"}
           /\ l = Blank <=> l.kind = "blank"
           /\ l.kind = "comment" => l.val \in STRING
           /\ l.kind = "item" => l.indent \in Nat /\ l.key \in Keys /\ l.val \in STRING
  BY DEF Lines, Blank

(* The greatest and the least number of a set.                              *)
LEMMA GreatestExists ==
    ASSUME NEW n \in Nat, NEW S \in SUBSET (1..n), S # {}
    PROVE  \E m \in S : \A k \in S : k <= m
  <1> DEFINE P(i) == \A T \in SUBSET (1..i) : T # {} => \E m \in T : \A k \in T : k <= m
             A == {i \in Nat : P(i)}
  <1>1. P(0)
    <2>1. ASSUME NEW T \in SUBSET (1..0) PROVE T = {}
      <3>1. \A k \in T : k \in 1..0 /\ FALSE
        OBVIOUS
      <3> QED
        BY <3>1
    <2> QED
      BY <2>1
  <1>2. ASSUME NEW i \in Nat, P(i) PROVE P(i + 1)
    <2>1. ASSUME NEW T \in SUBSET (1..i+1), T # {} PROVE \E m \in T : \A k \in T : k <= m
      <3>1. CASE i + 1 \in T
        <4>1. \A k \in T : k <= i + 1
          OBVIOUS
        <4> QED
          BY <3>1, <4>1
      <3>2. CASE i + 1 \notin T
        <4>1. T \in SUBSET (1..i)
          BY <3>2
        <4> QED
          BY <1>2, <2>1, <4>1
      <3> QED
        BY <3>1, <3>2
    <2> QED
      BY <2>1
  <1>3. n \in A
    <2> HIDE DEF P
    <2>1. 0 \in A /\ \A k \in Nat : k \in A => k + 1 \in A
      BY <1>1, <1>2
    <2> HIDE DEF A
    <2> QED
      BY <2>1, NatSetInduction
  <1> QED
    BY <1>3

(* A set of numbers that is not empty has a least one.                      *)
LEMMA LeastExists ==
    ASSUME NEW n \in Nat, NEW S \in SUBSET (1..n), S # {}
    PROVE  \E m \in S : \A k \in S : m <= k
  <1> DEFINE T == {n + 1 - k : k \in S}
  <1>1. T \in SUBSET (1..n) /\ T # {}
    <2>1. ASSUME NEW k \in S PROVE n + 1 - k \in 1..n
      <3>1. k \in 1..n
        OBVIOUS
      <3> QED
        BY <3>1
    <2>2. PICK k \in S : TRUE
      OBVIOUS
    <2>3. n + 1 - k \in T
      OBVIOUS
    <2> QED
      BY <2>1, <2>3
  <1> HIDE DEF T
  <1>2. PICK t \in T : \A k \in T : k <= t
    BY <1>1, GreatestExists
  <1>3. PICK m \in S : t = n + 1 - m
    BY DEF T
  <1>4. ASSUME NEW k \in S PROVE m <= k
    <2>1. n + 1 - k \in T
      BY DEF T
    <2>2. n + 1 - k <= n + 1 - m
      BY <1>2, <1>3, <2>1
    <2>3. k \in Nat /\ m \in Nat
      OBVIOUS
    <2> QED
      BY <2>2, <2>3
  <1> QED
    BY <1>4

(* Nearest is the greatest of the places, or 0.                             *)
LEMMA NearestIs ==
    ASSUME NEW n \in Nat, NEW S \in SUBSET (1..n)
    PROVE  /\ Nearest(S) \in 0..n
           /\ S = {} => Nearest(S) = 0
           /\ S # {} => Nearest(S) \in S
           /\ \A k \in S : k <= Nearest(S)
  <1>1. CASE S = {}
    BY <1>1 DEF Nearest
  <1>2. CASE S # {}
    <2> DEFINE Q(m) == \A k \in S : k <= m
    <2>1. \E m \in S : Q(m)
      BY <1>2, GreatestExists
    <2>2. Nearest(S) = CHOOSE m \in S : Q(m)
      BY <1>2 DEF Nearest
    <2> HIDE DEF Q
    <2>3. Nearest(S) \in S /\ Q(Nearest(S))
      BY <2>1, <2>2, Zenon
    <2>4. Nearest(S) \in 1..n
      BY <2>3
    <2> QED
      BY <1>2, <2>3, <2>4 DEF Q
  <1> QED
    BY <1>1, <1>2

LEMMA NearestUnique ==
    ASSUME NEW n \in Nat, NEW S \in SUBSET (1..n), NEW m \in S, \A k \in S : k <= m
    PROVE  Nearest(S) = m
  <1> DEFINE x == Nearest(S)
  <1>1. x \in S /\ m <= x
    BY NearestIs
  <1> HIDE DEF x
  <1>2. x <= m /\ x \in 1..n /\ m \in 1..n
    BY <1>1
  <1> QED
    BY <1>1, <1>2 DEF x

(* The places of lines.                                                     *)
Places(lines, P) ==
    /\ P[0] = 0
    /\ \A i \in 1..Len(lines) :
          P[i] = IF lines[i] = Blank THEN P[i - 1] ELSE P[i - 1] + 1

LEMMA PlacesType ==
    ASSUME NEW lines, NEW P, Len(lines) \in Nat, Places(lines, P)
    PROVE  \A i \in 0..Len(lines) : P[i] \in Nat
  <1> DEFINE A == {i \in Nat : i <= Len(lines) => P[i] \in Nat}
  <1>1. 0 \in A
    BY DEF Places
  <1>2. ASSUME NEW i \in Nat, i \in A PROVE i + 1 \in A
    <2> SUFFICES ASSUME i + 1 <= Len(lines) PROVE P[i + 1] \in Nat
      OBVIOUS
    <2>1. i + 1 \in 1..Len(lines) /\ i + 1 - 1 = i /\ P[i] \in Nat
      BY <1>2
    <2>2. P[i + 1] = IF lines[i + 1] = Blank THEN P[i] ELSE P[i] + 1
      BY <2>1 DEF Places
    <2> QED
      BY <2>1, <2>2
  <1>3. Nat \subseteq A
    <2> HIDE DEF A
    <2> QED
      BY <1>1, <1>2, NatSetInduction
  <1> QED
    BY <1>3

(* Places grow from line to line, by one for each that is not blank.        *)
LEMMA PlacesRise ==
    ASSUME NEW lines, NEW P, Len(lines) \in Nat, Places(lines, P)
    PROVE  \A j \in 0..Len(lines) : \A i \in 0..j :
              P[i] <= P[j] /\ (i < j /\ lines[j] # Blank => P[i] < P[j])
  <1> DEFINE N == Len(lines)
             Q(j) == \A i \in 0..j : P[i] <= P[j] /\ (i < j /\ lines[j] # Blank => P[i] < P[j])
             A == {j \in Nat : j <= N => Q(j)}
  <1>0. \A i \in 0..N : P[i] \in Nat
    BY PlacesType
  <1>1. 0 \in A
    <2>1. ASSUME NEW i \in 0..0 PROVE i = 0
      OBVIOUS
    <2>2. P[0] \in Nat
      BY <1>0
    <2> QED
      BY <2>1, <2>2
  <1>2. ASSUME NEW j \in Nat, j \in A PROVE j + 1 \in A
    <2> SUFFICES ASSUME j + 1 <= N PROVE Q(j + 1)
      OBVIOUS
    <2>1. j + 1 \in 1..Len(lines) /\ j + 1 - 1 = j /\ j \in 0..N /\ j + 1 \in 0..N /\ Q(j)
      BY <1>2
    <2>2. P[j + 1] = IF lines[j + 1] = Blank THEN P[j] ELSE P[j] + 1
      BY <2>1 DEF Places
    <2>3. P[j] \in Nat /\ P[j + 1] \in Nat
      BY <1>0, <2>1
    <2>4. ASSUME NEW i \in 0..j + 1
          PROVE  P[i] <= P[j + 1] /\ (i < j + 1 /\ lines[j + 1] # Blank => P[i] < P[j + 1])
      <3>1. CASE i = j + 1
        BY <2>3, <3>1
      <3>2. CASE i # j + 1
        <4>1. i \in 0..j /\ i \in 0..N
          BY <2>1, <3>2
        <4>2. P[i] <= P[j] /\ P[i] \in Nat
          BY <1>0, <2>1, <4>1
        <4> QED
          BY <2>2, <2>3, <4>2
      <3> QED
        BY <3>1, <3>2
    <2> QED
      BY <2>4
  <1>3. Nat \subseteq A
    <2> HIDE DEF A
    <2> QED
      BY <1>1, <1>2, NatSetInduction
  <1>4. ASSUME NEW j \in 0..N PROVE Q(j)
    <2>1. j \in Nat /\ j <= N
      OBVIOUS
    <2> QED
      BY <1>3, <2>1
  <1> QED
    BY <1>4

(* Each place up to that of a line is the place of a line up to it.         *)
LEMMA PlacesFilled ==
    ASSUME NEW lines, NEW P, Len(lines) \in Nat, Places(lines, P)
    PROVE  \A i \in 0..Len(lines) : \A k \in 1..P[i] :
              \E j \in 1..i : lines[j] # Blank /\ P[j] = k
  <1> DEFINE N == Len(lines)
             Q(i) == \A k \in 1..P[i] : \E j \in 1..i : lines[j] # Blank /\ P[j] = k
             A == {i \in Nat : i <= N => Q(i)}
  <1>0. \A i \in 0..N : P[i] \in Nat
    BY PlacesType
  <1>1. 0 \in A
    BY DEF Places
  <1>2. ASSUME NEW i \in Nat, i \in A PROVE i + 1 \in A
    <2> SUFFICES ASSUME i + 1 <= N PROVE Q(i + 1)
      OBVIOUS
    <2>1. i + 1 \in 1..Len(lines) /\ i + 1 - 1 = i /\ i \in 0..N /\ i + 1 \in 0..N /\ Q(i)
      BY <1>2
    <2>2. P[i + 1] = IF lines[i + 1] = Blank THEN P[i] ELSE P[i] + 1
      BY <2>1 DEF Places
    <2>3. P[i] \in Nat /\ P[i + 1] \in Nat
      BY <1>0, <2>1
    <2>4. ASSUME NEW k \in 1..P[i + 1]
          PROVE  \E j \in 1..i + 1 : lines[j] # Blank /\ P[j] = k
      <3>1. CASE k \in 1..P[i]
        <4>1. PICK j \in 1..i : lines[j] # Blank /\ P[j] = k
          BY <2>1, <3>1
        <4>2. j \in 1..i + 1
          OBVIOUS
        <4> QED
          BY <4>1, <4>2
      <3>2. CASE k \notin 1..P[i]
        <4>1. lines[i + 1] # Blank /\ P[i + 1] = k
          BY <2>2, <2>3, <3>2
        <4>2. i + 1 \in 1..i + 1
          OBVIOUS
        <4> QED
          BY <4>1, <4>2
      <3> QED
        BY <3>1, <3>2
    <2> QED
      BY <2>4
  <1>3. Nat \subseteq A
    <2> HIDE DEF A
    <2> QED
      BY <1>1, <1>2, NatSetInduction
  <1>4. ASSUME NEW i \in 0..N PROVE Q(i)
    <2>1. i \in Nat /\ i <= N
      OBVIOUS
    <2> QED
      BY <1>3, <2>1
  <1> QED
    BY <1>4

-----------------------------------------------------------------------------
(* The items above a line with a smaller indent than e.                     *)
Shallower(lines, i, e) == {j \in ItemsAbove(lines, i) : lines[j].indent < e}

LastItem(lines, i) == Nearest(ItemsAbove(lines, i))

LastIndent(lines, i) == IF LastItem(lines, i) = 0 THEN 0 ELSE lines[LastItem(lines, i)].indent

(* A line that load does not refuse.                                        *)
FitsAt(lines, i) ==
    /\ lines[i].kind # "bad"
    /\ lines[i].kind = "item" => lines[i].indent <= 1 + LastIndent(lines, i)

LEMMA ReadableIs == ASSUME NEW lines
                    PROVE  Readable(lines) <=> \A i \in DOMAIN lines : FitsAt(lines, i)
  BY DEF Readable, FitsAt, LastIndent, LastItem

LEMMA AboveIs ==
    ASSUME NEW lines \in Seq(Lines), NEW i \in 1..Len(lines) + 1
    PROVE  /\ i - 1 \in Nat
           /\ ItemsAbove(lines, i) \in SUBSET (1..i-1)
           /\ \A j \in ItemsAbove(lines, i) :
                 /\ j \in 1..Len(lines) /\ j < i
                 /\ lines[j] \in Lines /\ lines[j].kind = "item" /\ lines[j].indent \in Nat
                 /\ lines[j] # Blank
           /\ \A e : Shallower(lines, i, e) \in SUBSET (1..i-1)
  <1>1. i - 1 \in Nat /\ ItemsAbove(lines, i) \in SUBSET (1..i-1)
    BY DEF ItemsAbove
  <1>2. ASSUME NEW j \in ItemsAbove(lines, i)
        PROVE  /\ j \in 1..Len(lines) /\ j < i
               /\ lines[j] \in Lines /\ lines[j].kind = "item" /\ lines[j].indent \in Nat
               /\ lines[j] # Blank
    <2>1. j \in 1..Len(lines) /\ j < i /\ lines[j].kind = "item"
      BY DEF ItemsAbove
    <2>2. lines[j] \in Lines
      BY <2>1
    <2> QED
      BY <2>1, <2>2, LineIs
  <1> QED
    BY <1>1, <1>2 DEF Shallower

LEMMA OwnerIs ==
    ASSUME NEW lines \in Seq(Lines), NEW i \in 1..Len(lines)
    PROVE  /\ lines[i].kind = "item" =>
                 Owner(lines, i) = Nearest(Shallower(lines, i, lines[i].indent))
           /\ lines[i].kind # "item" => Owner(lines, i) = LastItem(lines, i)
           /\ Owner(lines, i) \in 0..i-1
           /\ Owner(lines, i) # 0 => Owner(lines, i) \in ItemsAbove(lines, i)
  <1>1. i \in 1..Len(lines) + 1
    OBVIOUS
  <1> DEFINE S == {j \in ItemsAbove(lines, i) :
                      lines[i].kind = "item" => lines[j].indent < lines[i].indent}
  <1>2. Owner(lines, i) = Nearest(S)
    BY DEF Owner
  <1>3. lines[i].kind = "item" => S = Shallower(lines, i, lines[i].indent)
    BY DEF Shallower
  <1>4. lines[i].kind # "item" => S = ItemsAbove(lines, i)
    OBVIOUS
  <1>5. S \in SUBSET (1..i-1) /\ i - 1 \in Nat
    BY <1>1, AboveIs
  <1>6. S \subseteq ItemsAbove(lines, i)
    OBVIOUS
  <1> HIDE DEF S
  <1>7. Nearest(S) \in 0..i-1 /\ (S # {} => Nearest(S) \in S) /\ (S = {} => Nearest(S) = 0)
    BY <1>5, NearestIs
  <1> QED
    BY <1>2, <1>3, <1>4, <1>6, <1>7 DEF LastItem

LEMMA LastIs ==
    ASSUME NEW lines \in Seq(Lines), NEW i \in 1..Len(lines) + 1
    PROVE  /\ LastItem(lines, i) \in 0..i-1
           /\ LastItem(lines, i) = 0 => ItemsAbove(lines, i) = {}
           /\ LastItem(lines, i) # 0 => LastItem(lines, i) \in ItemsAbove(lines, i)
           /\ \A j \in ItemsAbove(lines, i) : j <= LastItem(lines, i)
           /\ LastIndent(lines, i) \in Nat
  <1>1. i - 1 \in Nat /\ ItemsAbove(lines, i) \in SUBSET (1..i-1)
    BY AboveIs
  <1>2. /\ LastItem(lines, i) \in 0..i-1
        /\ ItemsAbove(lines, i) = {} => LastItem(lines, i) = 0
        /\ ItemsAbove(lines, i) # {} => LastItem(lines, i) \in ItemsAbove(lines, i)
        /\ \A j \in ItemsAbove(lines, i) : j <= LastItem(lines, i)
    BY <1>1, NearestIs DEF LastItem
  <1>3. 0 \notin ItemsAbove(lines, i)
    BY <1>1
  <1>4. LastIndent(lines, i) \in Nat
    BY <1>2, AboveIs DEF LastIndent
  <1> QED
    BY <1>2, <1>3, <1>4

(* Indents grow by one at most: the nearest item with an indent smaller     *)
(* than e has the indent e - 1, and its owner is the nearest with a smaller *)
(* indent than that.                                                        *)
LEMMA ShallowerStep ==
    ASSUME NEW lines \in Seq(Lines), NEW i \in 1..Len(lines) + 1,
           NEW e \in Nat \ {0}, \A j \in 1..i-1 : FitsAt(lines, j),
           e <= LastIndent(lines, i) + 1
    PROVE  LET b == Nearest(Shallower(lines, i, e))
               c == Nearest(Shallower(lines, i, e - 1))
           IN  /\ b = 0 => c = 0
               /\ b # 0 => /\ b \in ItemsAbove(lines, i) /\ lines[b].indent = e - 1
                           /\ c = Owner(lines, b)
  <1> DEFINE B == Shallower(lines, i, e)
             C == Shallower(lines, i, e - 1)
             b == Nearest(B)
             c == Nearest(C)
             a == LastItem(lines, i)
             A == ItemsAbove(lines, i)
  <1>1. i - 1 \in Nat /\ B \in SUBSET (1..i-1) /\ C \in SUBSET (1..i-1) /\ A \in SUBSET (1..i-1)
    BY AboveIs
  <1>2. \A j \in A : /\ j \in 1..Len(lines) /\ j < i /\ lines[j].kind = "item"
                     /\ lines[j].indent \in Nat
    BY AboveIs
  <1>3. /\ B = {} => b = 0
        /\ B # {} => b \in B
        /\ \A k \in B : k <= b
    BY <1>1, NearestIs
  <1>4. C = {} => c = 0
    BY <1>1, NearestIs
  <1>5. C \subseteq B
    <2>1. ASSUME NEW j \in C PROVE j \in B
      <3>1. j \in A /\ lines[j].indent < e - 1 /\ lines[j].indent \in Nat
        BY <1>2 DEF Shallower
      <3> QED
        BY <3>1 DEF Shallower
    <2> QED
      BY <2>1
  <1>6. 0 \notin B
    BY <1>1
  <1>7. ASSUME b = 0 PROVE c = 0
    BY <1>3, <1>4, <1>5, <1>6, <1>7
  <1>8. ASSUME b # 0
        PROVE  /\ b \in A /\ lines[b].indent = e - 1
               /\ c = Owner(lines, b)
    <2>1. b \in B /\ b \in A /\ lines[b].indent < e
      BY <1>3, <1>8 DEF Shallower
    <2>2. a \in 0..i-1 /\ (a = 0 => A = {}) /\ (a # 0 => a \in A) /\ \A j \in A : j <= a
      BY LastIs
    <2>3. a # 0 /\ a \in A /\ b <= a /\ LastIndent(lines, i) = lines[a].indent
      BY <2>1, <2>2 DEF LastIndent
    <2>4. b \in 1..Len(lines) /\ b < i /\ lines[b].indent \in Nat /\ lines[b].kind = "item"
      BY <1>2, <2>1
    <2>5. a \in 1..Len(lines) /\ a < i /\ lines[a].indent \in Nat
      BY <1>2, <2>3
    <2>6. lines[b].indent = e - 1
      <3>1. CASE b = a
        BY <2>1, <2>3, <2>4, <3>1
      <3>2. CASE b # a
        <4> DEFINE D == {j \in A : b < j}
        <4>1. D \in SUBSET (1..i-1) /\ a \in D
          BY <1>1, <2>3, <2>4, <2>5, <3>2
        <4>2. D # {}
          BY <4>1
        <4>3. \E m \in D : \A k \in D : m <= k
          <5> HIDE DEF D
          <5> QED
            BY <1>1, <4>1, <4>2, LeastExists
        <4>4. PICK m \in D : \A k \in D : m <= k
          BY <4>3
        <4>5. m \in A /\ b < m /\ m \in 1..i-1 /\ m \in 1..Len(lines) + 1 /\ lines[m].kind = "item"
              /\ lines[m].indent \in Nat
          BY <1>1, <1>2
        <4>6. lines[m].indent >= e
          <5>1. m \notin B
            BY <1>3, <2>4, <4>5
          <5> QED
            BY <4>5, <5>1 DEF Shallower
        <4>7. LastItem(lines, m) = b
          <5>1. ItemsAbove(lines, m) \in SUBSET (1..m-1) /\ m - 1 \in Nat
            BY <4>5, AboveIs
          <5>2. b \in ItemsAbove(lines, m)
            BY <2>4, <4>5 DEF ItemsAbove
          <5>3. ASSUME NEW k \in ItemsAbove(lines, m) PROVE k <= b
            <6>1. k \in A /\ k \in 1..m-1
              BY <4>5 DEF ItemsAbove
            <6>2. k \notin D
              BY <4>4, <4>5, <6>1
            <6> QED
              BY <2>4, <6>1, <6>2
          <5> QED
            BY <5>1, <5>2, <5>3, NearestUnique DEF LastItem
        <4>8. lines[m].indent <= 1 + lines[b].indent
          <5>1. FitsAt(lines, m)
            BY <4>5
          <5>2. b # 0
            BY <2>4
          <5> QED
            BY <4>5, <4>7, <5>1, <5>2 DEF FitsAt, LastIndent
        <4> QED
          BY <2>1, <2>4, <4>5, <4>6, <4>8
      <3> QED
        BY <3>1, <3>2
    <2>7. C = Shallower(lines, b, lines[b].indent)
      <3>1. ASSUME NEW j \in C PROVE j \in Shallower(lines, b, lines[b].indent)
        <4>1. j \in A /\ lines[j].indent < e - 1 /\ j \in B /\ j <= b
          BY <1>3, <1>5 DEF Shallower
        <4>2. j # b /\ j < b /\ j \in 1..b-1 /\ lines[j].kind = "item"
          BY <1>2, <2>4, <2>6, <4>1
        <4> QED
          BY <2>6, <4>1, <4>2 DEF Shallower, ItemsAbove
      <3>2. ASSUME NEW j \in Shallower(lines, b, lines[b].indent) PROVE j \in C
        <4>1. j \in 1..b-1 /\ lines[j].kind = "item" /\ lines[j].indent < e - 1
          BY <2>6 DEF Shallower, ItemsAbove
        <4>2. j \in 1..i-1
          BY <2>4, <4>1
        <4> QED
          BY <4>1, <4>2 DEF Shallower, ItemsAbove
      <3> QED
        BY <3>1, <3>2
    <2> QED
      BY <2>1, <2>4, <2>6, <2>7, OwnerIs
  <1> QED
    BY <1>7, <1>8

-----------------------------------------------------------------------------
(* Reading a file: the tree of the lines so far.                            *)
Nodes == [parent : Nat, depth : Nat, key : Keys \cup {"#"}, val : STRING]

NodeFits(lines, P, tree, j) ==
    tree[P[j]] = [parent |-> P[Owner(lines, j)], depth |-> Depth(tree, P[Owner(lines, j)]) + 1,
                  key |-> KeyOf(lines[j]), val |-> lines[j].val]

TreeFits(lines, P, i, tree) ==
    /\ tree \in Seq(Nodes) /\ Len(tree) = P[i]
    /\ \A j \in 1..i : lines[j] # Blank => NodeFits(lines, P, tree, j)

States == [tree : Seq(Nodes), cfg : Nat, last_indent : Nat, ok : BOOLEAN]

ReadFits(lines, P, i, st) ==
    /\ st \in States
    /\ st.ok <=> \A j \in 1..i : FitsAt(lines, j)
    /\ st.ok => /\ TreeFits(lines, P, i, st.tree)
                /\ st.cfg = P[LastItem(lines, i + 1)]
                /\ st.last_indent = LastIndent(lines, i + 1)

(* Climbing from the last item ends at the nearest with a smaller indent.   *)
LEMMA ClimbFinds ==
    ASSUME NEW lines \in Seq(Lines), NEW P, NEW i \in 1..Len(lines) + 1, NEW tree, NEW e \in Nat,
           Places(lines, P), \A j \in 1..i-1 : FitsAt(lines, j),
           TreeFits(lines, P, i - 1, tree), e <= LastIndent(lines, i) + 1
    PROVE  Climb(tree, P[LastItem(lines, i)], LastIndent(lines, i) + 1 - e)
           = P[Nearest(Shallower(lines, i, e))]
  <1> DEFINE l == LastIndent(lines, i)
             a == P[LastItem(lines, i)]
             n == l + 1 - e
             f == ClimbingOf(tree, a, n)
             near(d) == Nearest(Shallower(lines, i, d))
             A == {k \in Nat : k <= n => f[k] = P[near(l + 1 - k)]}
  <1>1. l \in Nat /\ n \in Nat /\ n <= l + 1
    <2>1. l \in Nat
      BY LastIs
    <2> HIDE DEF l
    <2> QED
      BY <2>1 DEF l
  <1>2. f[0] = a /\ \A k \in 1..n : f[k] = Parent(tree, f[k - 1])
    <2> HIDE DEF n, a
    <2> QED
      BY <1>1, ClimbingIs
  <1>3. Climb(tree, a, n) = f[n]
    <2> HIDE DEF n, a
    <2> QED
      BY <1>1, ClimbIs
  <1> HIDE DEF f
  <1>4. 0 \in A
    <2>1. Shallower(lines, i, l + 1) \in SUBSET (1..i-1) /\ i - 1 \in Nat
          /\ \A j \in ItemsAbove(lines, i) : lines[j].indent \in Nat
      BY AboveIs
    <2>2. near(l + 1) = LastItem(lines, i)
      <3>1. CASE LastItem(lines, i) = 0
        <4>1. Shallower(lines, i, l + 1) = {}
          BY <3>1, LastIs DEF Shallower
        <4> QED
          BY <2>1, <3>1, <4>1, NearestIs
      <3>2. CASE LastItem(lines, i) # 0
        <4>1. LastItem(lines, i) \in ItemsAbove(lines, i)
              /\ \A k \in ItemsAbove(lines, i) : k <= LastItem(lines, i)
          BY <3>2, LastIs
        <4>2. lines[LastItem(lines, i)].indent = l
          BY <3>2 DEF LastIndent
        <4> HIDE DEF l
        <4>3. LastItem(lines, i) \in Shallower(lines, i, l + 1)
          BY <1>1, <4>1, <4>2 DEF Shallower
        <4>4. \A k \in Shallower(lines, i, l + 1) : k <= LastItem(lines, i)
          BY <4>1 DEF Shallower
        <4> QED
          BY <2>1, <4>3, <4>4, NearestUnique
      <3> QED
        BY <3>1, <3>2
    <2> HIDE DEF l, near
    <2>3. l + 1 - 0 = l + 1
      BY <1>1
    <2> QED
      BY <1>2, <2>2, <2>3
  <1>5. ASSUME NEW k \in Nat, k \in A PROVE k + 1 \in A
    <2> SUFFICES ASSUME k + 1 <= n PROVE f[k + 1] = P[near(l + 1 - (k + 1))]
      OBVIOUS
    <2> DEFINE d == l + 1 - k
               b == near(d)
               c == near(d - 1)
    <2>1. k <= n /\ k + 1 \in 1..n /\ k + 1 - 1 = k /\ d \in Nat \ {0} /\ d <= l + 1
          /\ l + 1 - (k + 1) = d - 1
      <3> HIDE DEF l, n
      <3> QED
        BY <1>1
    <2>2. f[k] = P[b]
      BY <1>5, <2>1
    <2>3. f[k + 1] = Parent(tree, f[k])
      <3> HIDE DEF n
      <3> QED
        BY <1>2, <2>1
    <2>4. /\ b = 0 => c = 0
          /\ b # 0 => b \in ItemsAbove(lines, i) /\ c = Owner(lines, b)
      <3> HIDE DEF d
      <3> QED
        BY <2>1, ShallowerStep
    <2> HIDE DEF d, b, c
    <2>5. Parent(tree, P[b]) = P[c]
      <3>1. CASE b = 0
        BY <2>4, <3>1 DEF Places, Parent
      <3>2. CASE b # 0
        <4>1. b \in 1..Len(lines) /\ b < i /\ lines[b] # Blank
          BY <2>4, <3>2, AboveIs
        <4>2. b \in 1..i-1
          BY <4>1
        <4>3. tree[P[b]].parent = P[Owner(lines, b)]
          <5>1. NodeFits(lines, P, tree, b)
            BY <4>1, <4>2 DEF TreeFits
          <5> QED
            BY <5>1 DEF NodeFits
        <4>4. P[b] # 0
          <5>1. b \in 0..Len(lines) /\ 0 \in 0..b /\ 0 < b /\ Len(lines) \in Nat
            BY <4>1
          <5>2. P[0] < P[b] /\ P[0] = 0
            BY <4>1, <5>1, PlacesRise DEF Places
          <5> QED
            BY <5>2
        <4> QED
          BY <2>4, <3>2, <4>3, <4>4 DEF Parent
      <3> QED
        BY <3>1, <3>2
    <2> QED
      BY <2>1, <2>2, <2>3, <2>5 DEF c
  <1>6. n \in A
    <2> HIDE DEF A
    <2> QED
      BY <1>1, <1>4, <1>5, NatSetInduction
  <1>7. f[n] = P[near(l + 1 - n)] /\ l + 1 - n = e
    <2>1. l + 1 - n = e
      BY <1>1
    <2> HIDE DEF l, near, n
    <2> QED
      BY <1>1, <1>6, <2>1
  <1> QED
    BY <1>3, <1>7

LEMMA ChildFits ==
    ASSUME NEW lines \in Seq(Lines), NEW P, NEW i \in 1..Len(lines), NEW tree,
           Places(lines, P), TreeFits(lines, P, i - 1, tree),
           lines[i].kind \in {"item", "comment"}
    PROVE  TreeFits(lines, P, i, add_child(tree, P[Owner(lines, i)], KeyOf(lines[i]), lines[i].val))
  <1> DEFINE o == Owner(lines, i)
             node == [parent |-> P[o], depth |-> Depth(tree, P[o]) + 1,
                      key |-> KeyOf(lines[i]), val |-> lines[i].val]
             new == Append(tree, node)
  <1>1. tree \in Seq(Nodes) /\ Len(tree) = P[i - 1]
        /\ \A j \in 1..i-1 : lines[j] # Blank => NodeFits(lines, P, tree, j)
    BY DEF TreeFits
  <1>2. lines[i] \in Lines /\ lines[i] # Blank /\ Len(lines) \in Nat
    BY LineIs
  <1>3. o \in 0..i-1
    BY OwnerIs
  <1>4. P[i] = P[i - 1] + 1 /\ P[i - 1] \in Nat /\ P[o] \in Nat /\ P[o] <= P[i - 1]
    <2>1. i - 1 \in 0..Len(lines) /\ o \in 0..Len(lines) /\ i \in 1..Len(lines)
      BY <1>3
    <2>2. P[i - 1] \in Nat /\ P[o] \in Nat
      BY <1>2, <2>1, PlacesType
    <2>3. P[i] = P[i - 1] + 1
      BY <1>2 DEF Places
    <2>4. P[o] <= P[i - 1]
      BY <1>2, <1>3, <2>1, PlacesRise
    <2> QED
      BY <2>2, <2>3, <2>4
  <1> HIDE DEF o
  <1>5. Depth(tree, P[o]) \in Nat
    <2>1. CASE P[o] = 0
      BY <2>1 DEF Depth
    <2>2. CASE P[o] # 0
      <3>1. P[o] \in 1..Len(tree)
        BY <1>1, <1>4, <2>2
      <3>2. tree[P[o]] \in Nodes
        BY <1>1, <3>1
      <3> QED
        BY <2>2, <3>2 DEF Depth, Nodes
    <2> QED
      BY <2>1, <2>2
  <1>6. KeyOf(lines[i]) \in Keys \cup {"#"} /\ lines[i].val \in STRING
    <2>1. lines[i].val \in STRING /\ (lines[i].kind = "item" => lines[i].key \in Keys)
      BY <1>2, LineIs
    <2>2. CASE lines[i].kind = "comment"
      BY <2>1, <2>2 DEF KeyOf
    <2>3. CASE lines[i].kind = "item"
      <3>1. KeyOf(lines[i]) = lines[i].key
        BY <2>3 DEF KeyOf
      <3> QED
        BY <2>1, <2>3, <3>1
    <2> QED
      BY <2>2, <2>3
  <1>7. node \in Nodes
    BY <1>4, <1>5, <1>6 DEF Nodes
  <1>8. add_child(tree, P[o], KeyOf(lines[i]), lines[i].val) = new
    BY DEF add_child
  <1> HIDE DEF node
  <1>9. new \in Seq(Nodes) /\ Len(new) = P[i] /\ new[P[i]] = node
        /\ \A k \in 1..P[i - 1] : new[k] = tree[k]
    BY <1>1, <1>4, <1>7
  <1> HIDE DEF new
  <1>10. ASSUME NEW k \in 0..P[i - 1] PROVE Depth(new, k) = Depth(tree, k)
    <2>1. k = 0 \/ k \in 1..P[i - 1]
      BY <1>4
    <2> QED
      BY <1>9, <2>1 DEF Depth
  <1>11. NodeFits(lines, P, new, i)
    <2>1. Depth(new, P[o]) = Depth(tree, P[o])
      BY <1>4, <1>10
    <2> QED
      BY <1>9, <2>1 DEF NodeFits, node, o
  <1>12. ASSUME NEW j \in 1..i-1, lines[j] # Blank PROVE NodeFits(lines, P, new, j)
    <2> DEFINE q == Owner(lines, j)
    <2>1. j \in 1..Len(lines)
      OBVIOUS
    <2>2. q \in 0..j-1
      BY <2>1, OwnerIs
    <2> HIDE DEF q
    <2>3. j \in 0..Len(lines) /\ q \in 0..Len(lines) /\ q \in 0..j /\ j \in 0..i-1
          /\ 0 \in 0..j /\ 0 < j /\ i - 1 \in 0..Len(lines) /\ q \in 0..i-1
      BY <2>1, <2>2
    <2>4. P[q] \in Nat /\ P[j] \in Nat
      BY <1>2, <2>3, PlacesType
    <2>5. P[0] < P[j] /\ P[j] <= P[i - 1] /\ P[q] <= P[i - 1] /\ P[0] = 0
      BY <1>2, <1>12, <2>3, PlacesRise DEF Places
    <2>6. P[j] \in 1..P[i - 1] /\ P[q] \in 0..P[i - 1]
      BY <1>4, <2>4, <2>5
    <2>7. new[P[j]] = tree[P[j]] /\ Depth(new, P[q]) = Depth(tree, P[q])
      BY <1>9, <1>10, <2>6
    <2>8. NodeFits(lines, P, tree, j)
      BY <1>1, <1>12
    <2> QED
      BY <2>7, <2>8 DEF NodeFits, q
  <1>13. ASSUME NEW j \in 1..i, lines[j] # Blank PROVE NodeFits(lines, P, new, j)
    <2>1. j = i \/ j \in 1..i-1
      OBVIOUS
    <2> QED
      BY <1>11, <1>12, <1>13, <2>1
  <1> QED
    BY <1>8, <1>9, <1>13 DEF TreeFits, o

(* Whether the lines so far could be read.                                  *)
LEMMA FitsMore ==
    ASSUME NEW lines, NEW i \in Nat \ {0}
    PROVE  (\A j \in 1..i : FitsAt(lines, j))
           <=> (\A j \in 1..i-1 : FitsAt(lines, j)) /\ FitsAt(lines, i)
  <1>1. \A j \in 1..i : j \in 1..i-1 \/ j = i
    OBVIOUS
  <1>2. i \in 1..i /\ 1..i-1 \subseteq 1..i
    OBVIOUS
  <1> QED
    BY <1>1, <1>2

LEMMA LastMoves ==
    ASSUME NEW lines \in Seq(Lines), NEW i \in 1..Len(lines)
    PROVE  /\ lines[i].kind # "item" => /\ LastItem(lines, i + 1) = LastItem(lines, i)
                                        /\ LastIndent(lines, i + 1) = LastIndent(lines, i)
           /\ lines[i].kind = "item" => /\ LastItem(lines, i + 1) = i
                                        /\ LastIndent(lines, i + 1) = lines[i].indent
  <1>1. ASSUME lines[i].kind # "item"
        PROVE  ItemsAbove(lines, i + 1) = ItemsAbove(lines, i)
    <2>1. \A j \in 1..i+1-1 : j \in 1..i-1 \/ j = i
      OBVIOUS
    <2>2. 1..i-1 \subseteq 1..i+1-1
      OBVIOUS
    <2> QED
      BY <1>1, <2>1, <2>2 DEF ItemsAbove
  <1>2. ASSUME lines[i].kind = "item" PROVE LastItem(lines, i + 1) = i
    <2>1. i + 1 \in 1..Len(lines) + 1
      OBVIOUS
    <2>2. ItemsAbove(lines, i + 1) \in SUBSET (1..i+1-1) /\ i + 1 - 1 \in Nat
      BY <2>1, AboveIs
    <2>3. i \in ItemsAbove(lines, i + 1)
      BY <1>2 DEF ItemsAbove
    <2>4. \A j \in ItemsAbove(lines, i + 1) : j <= i
      BY DEF ItemsAbove
    <2> QED
      BY <2>2, <2>3, <2>4, NearestUnique DEF LastItem
  <1>3. i # 0
    OBVIOUS
  <1> QED
    BY <1>1, <1>2, <1>3 DEF LastItem, LastIndent

(* A blank line changes nothing.                                            *)
LEMMA BlankFits ==
    ASSUME NEW lines \in Seq(Lines), NEW P, NEW i \in 1..Len(lines), NEW tree,
           Places(lines, P), TreeFits(lines, P, i - 1, tree), lines[i] = Blank
    PROVE  TreeFits(lines, P, i, tree)
  <1>1. P[i] = P[i - 1]
    BY DEF Places
  <1>2. \A j \in 1..i : j \in 1..i-1 \/ j = i
    OBVIOUS
  <1> QED
    BY <1>1, <1>2 DEF TreeFits

(* Reading an item keeps the tree that of the lines so far.                 *)
LEMMA ItemFits ==
    ASSUME NEW lines \in Seq(Lines), NEW P, NEW i \in 1..Len(lines), NEW st,
           Places(lines, P), ReadFits(lines, P, i - 1, st), st.ok,
           lines[i].kind = "item" \/ lines[i].kind = "bad"
    PROVE  ReadFits(lines, P, i, ReadItem(st, lines[i]))
  <1> DEFINE line == lines[i]
             l == LastIndent(lines, i)
             steps == IF line.indent <= st.last_indent THEN st.last_indent - line.indent + 1 ELSE 0
             cfg == Climb(st.tree, st.cfg, steps)
             new == [tree |-> add_child(st.tree, cfg, line.key, line.val),
                     cfg |-> Len(st.tree) + 1, last_indent |-> line.indent, ok |-> TRUE]
             bad == [st EXCEPT !.ok = FALSE]
  <1>1. i - 1 + 1 = i /\ i \in Nat \ {0} /\ Len(lines) \in Nat
        /\ i \in 1..Len(lines) + 1
    OBVIOUS
  <1>2. /\ st \in States /\ \A j \in 1..i-1 : FitsAt(lines, j)
        /\ TreeFits(lines, P, i - 1, st.tree)
        /\ st.cfg = P[LastItem(lines, i)] /\ st.last_indent = l
    BY <1>1 DEF ReadFits
  <1>3. line \in Lines /\ (line.kind = "item" => line.indent \in Nat)
    <2>1. line \in Lines
      OBVIOUS
    <2> QED
      BY <2>1, LineIs
  <1>4. l \in Nat
    BY <1>1, LastIs
  <1>5. ReadItem(st, line) = IF line.kind = "bad" \/ line.indent > st.last_indent + 1
                             THEN bad ELSE new
    BY DEF ReadItem
  <1>6. CASE line.kind = "bad" \/ line.indent > st.last_indent + 1
    <2>1. ~FitsAt(lines, i)
      <3>1. CASE line.kind = "bad"
        BY <3>1 DEF FitsAt
      <3>2. CASE line.kind # "bad"
        <4>1. line.kind = "item" /\ line.indent \in Nat /\ line.indent > l + 1
          BY <1>2, <1>3, <1>6, <3>2
        <4> HIDE DEF l
        <4>2. ~(line.indent <= 1 + l)
          BY <1>4, <4>1
        <4> QED
          BY <4>1, <4>2 DEF FitsAt, l
      <3> QED
        BY <3>1, <3>2
    <2>2. bad \in States /\ ~bad.ok
      BY <1>2 DEF States
    <2>3. ReadItem(st, line) = bad
      BY <1>5, <1>6
    <2> HIDE DEF bad
    <2>4. ~ \A j \in 1..i : FitsAt(lines, j)
      BY <1>1, <2>1
    <2> QED
      BY <2>2, <2>3, <2>4 DEF ReadFits
  <1>7. CASE ~(line.kind = "bad" \/ line.indent > st.last_indent + 1)
    <2>1. line.kind = "item" /\ line.indent \in Nat /\ line.indent <= l + 1
      <3>1. line.kind = "item" /\ line.indent \in Nat /\ ~(line.indent > l + 1)
        BY <1>2, <1>3, <1>7
      <3> HIDE DEF line, l
      <3> QED
        BY <1>4, <3>1
    <2>2. steps = l + 1 - line.indent
      <3>1. steps = IF line.indent <= l THEN l - line.indent + 1 ELSE 0
        BY <1>2
      <3> HIDE DEF line, l, steps
      <3> QED
        BY <1>4, <2>1, <3>1
    <2>3. cfg = P[Owner(lines, i)]
      <3>1. Climb(st.tree, P[LastItem(lines, i)], l + 1 - line.indent)
            = P[Nearest(Shallower(lines, i, line.indent))]
        BY <1>1, <1>2, <2>1, ClimbFinds
      <3>2. Owner(lines, i) = Nearest(Shallower(lines, i, line.indent))
        BY <2>1, OwnerIs
      <3> HIDE DEF steps, line, l
      <3> QED
        BY <1>2, <2>2, <3>1, <3>2
    <2> HIDE DEF cfg, steps
    <2>4. KeyOf(line) = line.key
      BY <2>1 DEF KeyOf
    <2>5. TreeFits(lines, P, i, add_child(st.tree, cfg, line.key, line.val))
      BY <1>2, <2>1, <2>3, <2>4, ChildFits
    <2>6. FitsAt(lines, i)
      <3> HIDE DEF line, l
      <3>1. line.indent <= 1 + l
        BY <1>4, <2>1
      <3> QED
        BY <2>1, <3>1 DEF FitsAt, line, l
    <2>7. Len(st.tree) + 1 = P[i] /\ P[i] \in Nat
      <3>1. line # Blank
        BY <2>1 DEF Blank
      <3>2. P[i] = P[i - 1] + 1 /\ Len(st.tree) = P[i - 1]
        BY <1>2, <3>1 DEF Places, TreeFits
      <3>3. P[i] \in Nat
        BY <1>1, PlacesType
      <3> QED
        BY <3>2, <3>3
    <2>8. LastItem(lines, i + 1) = i /\ LastIndent(lines, i + 1) = line.indent
      BY <2>1, LastMoves
    <2>9. ReadItem(st, line) = new
      BY <1>5, <1>7
    <2> DEFINE t == add_child(st.tree, cfg, line.key, line.val)
               n == Len(st.tree) + 1
               d == line.indent
    <2>10. new = [tree |-> t, cfg |-> n, last_indent |-> d, ok |-> TRUE]
      OBVIOUS
    <2>11. t \in Seq(Nodes) /\ n \in Nat /\ d \in Nat
      BY <2>1, <2>5, <2>7 DEF TreeFits
    <2>12. n = P[LastItem(lines, i + 1)] /\ d = LastIndent(lines, i + 1) /\ TreeFits(lines, P, i, t)
      BY <2>5, <2>7, <2>8
    <2>13. \A j \in 1..i : FitsAt(lines, j)
      BY <1>1, <1>2, <2>6, FitsMore
    <2> HIDE DEF t, n, d, new
    <2>14. new \in States /\ new.ok /\ new.tree = t /\ new.cfg = n /\ new.last_indent = d
      BY <2>10, <2>11 DEF States
    <2> QED
      BY <2>9, <2>12, <2>13, <2>14 DEF ReadFits
  <1> QED
    BY <1>6, <1>7

(* So does reading any line.                                                *)
LEMMA LineFits ==
    ASSUME NEW lines \in Seq(Lines), NEW P, NEW i \in 1..Len(lines), NEW st,
           Places(lines, P), ReadFits(lines, P, i - 1, st)
    PROVE  ReadFits(lines, P, i, ReadLine(st, lines[i]))
  <1> DEFINE line == lines[i]
  <1>1. i - 1 + 1 = i /\ i \in Nat \ {0} /\ Len(lines) \in Nat
    OBVIOUS
  <1>2. line \in Lines
    OBVIOUS
  <1>3. st \in States /\ (st.ok <=> \A j \in 1..i-1 : FitsAt(lines, j))
    BY DEF ReadFits
  <1>4. CASE ~st.ok
    <2>1. ReadLine(st, line) = st
      BY <1>4 DEF ReadLine
    <2>2. ~ \A j \in 1..i : FitsAt(lines, j)
      BY <1>1, <1>3, <1>4, FitsMore
    <2> QED
      BY <1>3, <1>4, <2>1, <2>2 DEF ReadFits
  <1>5. CASE st.ok
    <2>1. /\ TreeFits(lines, P, i - 1, st.tree)
          /\ st.cfg = P[LastItem(lines, i)] /\ st.last_indent = LastIndent(lines, i)
      BY <1>1, <1>5 DEF ReadFits
    <2>2. line.kind \in {"blank", "bad", "comment", "item"} /\ (line = Blank <=> line.kind = "blank")
          /\ (line.kind = "comment" => line.val \in STRING)
      BY <1>2, LineIs
    <2>3. CASE line.kind = "blank"
      <3>1. line = Blank
        BY <2>2, <2>3
      <3>2. ReadLine(st, line) = st
        BY <2>3, <3>1 DEF ReadLine
      <3>3. FitsAt(lines, i)
        BY <2>3 DEF FitsAt
      <3>4. \A j \in 1..i : FitsAt(lines, j)
        BY <1>1, <1>3, <1>5, <3>3, FitsMore
      <3>5. TreeFits(lines, P, i, st.tree)
        BY <2>1, <3>1, BlankFits
      <3>6. LastItem(lines, i + 1) = LastItem(lines, i) /\ LastIndent(lines, i + 1) = LastIndent(lines, i)
        BY <2>3, LastMoves
      <3> QED
        BY <1>3, <1>5, <2>1, <3>2, <3>4, <3>5, <3>6 DEF ReadFits
    <2>4. CASE line.kind = "comment"
      <3> DEFINE t == add_child(st.tree, st.cfg, "#", line.val)
                 new == [st EXCEPT !.tree = t]
      <3>1. line # Blank
        BY <2>2, <2>4
      <3>2. ReadLine(st, line) = new
        BY <1>5, <2>4, <3>1 DEF ReadLine
      <3>3. FitsAt(lines, i)
        BY <2>4 DEF FitsAt
      <3>4. \A j \in 1..i : FitsAt(lines, j)
        BY <1>1, <1>3, <1>5, <3>3, FitsMore
      <3>5. st.cfg = P[Owner(lines, i)] /\ KeyOf(line) = "#"
        BY <2>1, <2>4, OwnerIs DEF KeyOf
      <3>6. TreeFits(lines, P, i, t)
        BY <2>1, <2>4, <3>5, ChildFits
      <3>7. LastItem(lines, i + 1) = LastItem(lines, i) /\ LastIndent(lines, i + 1) = LastIndent(lines, i)
        BY <2>4, LastMoves
      <3>8. t \in Seq(Nodes)
        BY <3>6 DEF TreeFits
      <3> HIDE DEF t
      <3>9. new \in States /\ new.ok /\ new.tree = t /\ new.cfg = st.cfg
            /\ new.last_indent = st.last_indent
        BY <1>3, <1>5, <3>8 DEF States
      <3> QED
        BY <2>1, <3>2, <3>4, <3>6, <3>7, <3>9 DEF ReadFits
    <2>5. CASE line.kind = "item" \/ line.kind = "bad"
      <3>1. line # Blank /\ line.kind # "comment"
        BY <2>2, <2>5
      <3>2. ReadLine(st, line) = ReadItem(st, line)
        BY <1>5, <3>1 DEF ReadLine
      <3>3. ReadFits(lines, P, i, ReadItem(st, line))
        BY <1>5, <2>5, ItemFits
      <3> QED
        BY <3>2, <3>3
    <2> QED
      BY <2>2, <2>3, <2>4, <2>5
  <1> QED
    BY <1>4, <1>5

(* What load makes of a file.                                               *)
LEMMA LoadFits ==
    ASSUME NEW lines \in Seq(Lines)
    PROVE  LET P == Place(lines)
           IN  /\ Places(lines, P)
               /\ Readable(lines) => TreeFits(lines, P, Len(lines), load(lines))
               /\ ~Readable(lines) => load(lines) = NoConfig
  <1> DEFINE P == Place(lines)
             N == Len(lines)
             R == ReadingOf(lines, N)
             A == {i \in Nat : i <= N => ReadFits(lines, P, i, R[i])}
  <1>1. N \in Nat /\ DOMAIN lines = 1..N
    OBVIOUS
  <1>2. Places(lines, P)
    <2> HIDE DEF N
    <2>1. P = PlacedOf(lines, N)
      BY <1>1, PlaceIs DEF N
    <2> QED
      BY <1>1, <2>1, PlacedIs DEF Places, N
  <1>3. R[0] = Unread /\ \A i \in 1..N : R[i] = ReadLine(R[i - 1], lines[i])
    <2> HIDE DEF N
    <2> QED
      BY <1>1, ReadingIs
  <1>4. load(lines) = IF R[N].ok THEN R[N].tree ELSE NoConfig
    BY <1>1, LoadIs
  <1> HIDE DEF R, P
  <1>5. 0 \in A
    <2>1. Unread \in States /\ Unread.ok /\ Unread.tree = <<>> /\ Unread.cfg = 0
          /\ Unread.last_indent = 0
      BY DEF Unread, States
    <2>2. ItemsAbove(lines, 0 + 1) = {}
      BY DEF ItemsAbove
    <2>3. LastItem(lines, 0 + 1) = 0 /\ LastIndent(lines, 0 + 1) = 0
      BY <2>2 DEF LastItem, LastIndent, Nearest
    <2>4. TreeFits(lines, P, 0, <<>>)
      BY <1>2 DEF TreeFits, Places
    <2> QED
      BY <1>2, <1>3, <2>1, <2>3, <2>4 DEF ReadFits, Places
  <1>6. ASSUME NEW i \in Nat, i \in A PROVE i + 1 \in A
    <2> SUFFICES ASSUME i + 1 <= N PROVE ReadFits(lines, P, i + 1, R[i + 1])
      OBVIOUS
    <2>1. i + 1 \in 1..Len(lines) /\ i + 1 - 1 = i /\ i <= N
      BY <1>1
    <2>2. ReadFits(lines, P, i, R[i]) /\ R[i + 1] = ReadLine(R[i], lines[i + 1])
      BY <1>3, <1>6, <2>1
    <2> QED
      BY <1>2, <2>1, <2>2, LineFits
  <1>7. N \in A
    <2> HIDE DEF A
    <2> QED
      BY <1>1, <1>5, <1>6, NatSetInduction
  <1>8. ReadFits(lines, P, N, R[N])
    BY <1>1, <1>7
  <1>9. Readable(lines) <=> \A j \in 1..N : FitsAt(lines, j)
    BY <1>1, ReadableIs
  <1> HIDE DEF N
  <1>10. R[N].ok <=> Readable(lines)
    BY <1>8, <1>9 DEF ReadFits
  <1>11. Readable(lines) => TreeFits(lines, P, N, load(lines))
    BY <1>4, <1>8, <1>10 DEF ReadFits
  <1> QED
    BY <1>2, <1>4, <1>10, <1>11 DEF P, N

(* load builds the tree that the indents say, or refuses the file.          *)
LEMMA LoadsRight == ASSUME NEW lines \in Seq(Lines) PROVE LoadsByIndent(lines)
  <1> DEFINE P == Place(lines)
             tree == load(lines)
  <1>1. /\ Readable(lines) => TreeFits(lines, P, Len(lines), tree)
        /\ ~Readable(lines) => tree = NoConfig
    BY LoadFits
  <1> HIDE DEF P, tree
  <1>2. ASSUME Readable(lines), NEW i \in DOMAIN lines, lines[i] # Blank
        PROVE  /\ tree[P[i]].parent = P[Owner(lines, i)]
               /\ tree[P[i]].key = KeyOf(lines[i]) /\ tree[P[i]].val = lines[i].val
    <2>1. i \in 1..Len(lines)
      OBVIOUS
    <2>2. NodeFits(lines, P, tree, i)
      BY <1>1, <1>2, <2>1 DEF TreeFits
    <2> QED
      BY <2>2 DEF NodeFits
  <1>3. Readable(lines) => Len(tree) = P[Len(lines)]
    BY <1>1 DEF TreeFits
  <1> QED
    BY <1>1, <1>2, <1>3 DEF LoadsByIndent, P, tree

-----------------------------------------------------------------------------
(* A loaded tree: a comment belongs to the nearest item above it, and the   *)
(* items between an item and its parent are not less deep than it.          *)
IsItem(tree, i) == tree[i].key # "#"

TreeSound(tree) ==
    /\ tree \in Seq(Nodes)
    /\ \A j \in 1..Len(tree) :
          /\ tree[j].parent \in 0..j-1
          /\ tree[j].parent # 0 => IsItem(tree, tree[j].parent)
          /\ tree[j].depth = Depth(tree, tree[j].parent) + 1
          /\ \A i \in 1..j-1 : IsItem(tree, i) /\ tree[j].parent < i =>
                IsItem(tree, j) /\ tree[i].depth >= tree[j].depth

(* The line a of a node.                                                    *)
LEMMA NodeOfLine ==
    ASSUME NEW lines \in Seq(Lines), NEW P, NEW tree, NEW a \in 1..Len(lines),
           Places(lines, P), TreeFits(lines, P, Len(lines), tree), Readable(lines),
           lines[a] # Blank
    PROVE  /\ P[a] \in 1..Len(tree) /\ P[a] \in Nat
           /\ lines[a].kind \in {"comment", "item"}
           /\ IsItem(tree, P[a]) <=> lines[a].kind = "item"
           /\ tree[P[a]].parent = P[Owner(lines, a)]
           /\ tree[P[a]].depth = Depth(tree, P[Owner(lines, a)]) + 1
           /\ tree[P[a]].key = KeyOf(lines[a]) /\ tree[P[a]].val = lines[a].val
           /\ Owner(lines, a) \in 0..a-1 /\ P[Owner(lines, a)] \in 0..P[a]-1
           /\ Owner(lines, a) # 0 => /\ Owner(lines, a) \in 1..Len(lines)
                                     /\ lines[Owner(lines, a)].kind = "item"
                                     /\ lines[Owner(lines, a)] # Blank
  <1> DEFINE o == Owner(lines, a)
  <1>1. lines[a] \in Lines /\ Len(lines) \in Nat /\ a \in 0..Len(lines) /\ 0 \in 0..a /\ 0 < a
        /\ Len(lines) \in 0..Len(lines) /\ a \in 0..Len(lines) /\ a \in 1..Len(lines) + 1
    OBVIOUS
  <1>2. NodeFits(lines, P, tree, a) /\ Len(tree) = P[Len(lines)]
    BY DEF TreeFits
  <1>3. P[a] \in Nat /\ P[Len(lines)] \in Nat
    BY <1>1, PlacesType
  <1>4. P[0] < P[a] /\ P[0] = 0 /\ P[a] <= P[Len(lines)]
    BY <1>1, PlacesRise DEF Places
  <1>5. P[a] \in 1..Len(tree)
    BY <1>2, <1>3, <1>4
  <1>6. /\ lines[a].kind \in {"comment", "item"}
        /\ lines[a].kind = "item" => lines[a].key \in Keys
    <2>1. FitsAt(lines, a)
      BY ReadableIs
    <2> QED
      BY <1>1, <2>1, LineIs DEF FitsAt
  <1>7. /\ tree[P[a]].parent = P[o] /\ tree[P[a]].depth = Depth(tree, P[o]) + 1
        /\ tree[P[a]].key = KeyOf(lines[a]) /\ tree[P[a]].val = lines[a].val
    BY <1>2 DEF NodeFits
  <1>8. IsItem(tree, P[a]) <=> lines[a].kind = "item"
    <2>1. KeyOf(lines[a]) # "#" <=> lines[a].kind = "item"
      BY <1>6 DEF KeyOf, Keys
    <2> QED
      BY <1>7, <2>1 DEF IsItem
  <1>9. o \in 0..a-1 /\ (o # 0 => o \in ItemsAbove(lines, a))
    BY OwnerIs
  <1>10. P[o] \in 0..P[a]-1
    <2> HIDE DEF o
    <2>1. o \in 0..Len(lines) /\ o \in 0..a /\ o < a
      BY <1>9
    <2>2. P[o] \in Nat /\ P[o] < P[a]
      BY <1>1, <2>1, PlacesType, PlacesRise
    <2> QED
      BY <1>3, <2>2
  <1>11. ASSUME o # 0 PROVE o \in 1..Len(lines) /\ lines[o].kind = "item" /\ lines[o] # Blank
    BY <1>1, <1>9, <1>11, AboveIs
  <1> QED
    BY <1>3, <1>5, <1>6, <1>7, <1>8, <1>9, <1>10, <1>11

(* The items between an item and its owner are not less deep than it.       *)
LEMMA BetweenDeeper ==
    ASSUME NEW lines \in Seq(Lines), NEW P, NEW tree, NEW a \in 1..Len(lines),
           Places(lines, P), TreeFits(lines, P, Len(lines), tree), Readable(lines),
           lines[a].kind = "item"
    PROVE  \A c \in ItemsAbove(lines, a) : Owner(lines, a) < c => tree[P[c]].depth >= tree[P[a]].depth
  <1> DEFINE o == Owner(lines, a)
             D(c) == tree[P[c]].depth
             A == {n \in Nat : \A c \in ItemsAbove(lines, a) : o < c /\ c <= n => D(c) >= D(a)}
  <1>1. lines[a] # Blank /\ a \in 1..Len(lines) + 1 /\ tree \in Seq(Nodes)
    BY DEF Blank, TreeFits
  <1>2. o = Nearest(Shallower(lines, a, lines[a].indent)) /\ o \in 0..a-1
        /\ (o # 0 => o \in ItemsAbove(lines, a))
    BY OwnerIs
  <1>3. Shallower(lines, a, lines[a].indent) \in SUBSET (1..a-1) /\ a - 1 \in Nat
    BY <1>1, AboveIs
  <1>4. \A k \in Shallower(lines, a, lines[a].indent) : k <= o
    BY <1>2, <1>3, NearestIs
  <1>5. o # 0 => o \in Shallower(lines, a, lines[a].indent)
    <2>1. Shallower(lines, a, lines[a].indent) = {} => o = 0
      BY <1>2, <1>3, NearestIs
    <2>2. Shallower(lines, a, lines[a].indent) # {} => o \in Shallower(lines, a, lines[a].indent)
      BY <1>2, <1>3, NearestIs
    <2> QED
      BY <2>1, <2>2
  <1>6. lines[a].indent \in Nat
    <2>1. lines[a] \in Lines
      OBVIOUS
    <2> QED
      BY <2>1, LineIs
  <1>7. D(a) = Depth(tree, P[o]) + 1
    BY <1>1, NodeOfLine
  <1>8. ASSUME NEW c \in ItemsAbove(lines, a), o < c,
               \A b \in ItemsAbove(lines, a) : o < b /\ b < c => D(b) >= D(a)
        PROVE  D(c) >= D(a)
    <2> DEFINE q == Owner(lines, c)
    <2>1. c \in 1..Len(lines) /\ c < a /\ lines[c].kind = "item" /\ lines[c].indent \in Nat
          /\ lines[c] # Blank
      BY <1>1, AboveIs
    <2>2. /\ D(c) = Depth(tree, P[q]) + 1 /\ q \in 0..c-1 /\ P[q] \in 0..P[c]-1
          /\ P[c] \in 1..Len(tree)
          /\ q # 0 => q \in 1..Len(lines) /\ lines[q].kind = "item" /\ lines[q] # Blank
      <3>1. D(c) = Depth(tree, P[q]) + 1
        BY <2>1, NodeOfLine
      <3>2. q \in 0..c-1 /\ P[q] \in 0..P[c]-1 /\ P[c] \in 1..Len(tree)
        BY <2>1, NodeOfLine
      <3>3. q # 0 => q \in 1..Len(lines) /\ lines[q].kind = "item" /\ lines[q] # Blank
        BY <2>1, NodeOfLine
      <3> QED
        BY <3>1, <3>2, <3>3
    <2>3. o <= q
      <3>1. CASE o = 0
        BY <2>2, <3>1
      <3>2. CASE o # 0
        <4>1. o \in ItemsAbove(lines, a) /\ lines[o].indent < lines[a].indent /\ lines[o].indent \in Nat
              /\ lines[o].kind = "item"
          BY <1>1, <1>5, <3>2, AboveIs DEF Shallower
        <4>2. lines[c].indent >= lines[a].indent
          <5>1. c \notin Shallower(lines, a, lines[a].indent)
            BY <1>2, <1>4, <1>8, <2>1
          <5> QED
            BY <1>6, <2>1, <5>1 DEF Shallower
        <4>3. lines[o].indent < lines[c].indent
          BY <1>6, <2>1, <4>1, <4>2
        <4>4. o \in Shallower(lines, c, lines[c].indent)
          <5>1. o \in 1..c-1
            BY <1>2, <1>8, <2>1, <3>2
          <5> QED
            BY <4>1, <4>3, <5>1 DEF Shallower, ItemsAbove
        <4>5. c \in 1..Len(lines) + 1 /\ q = Nearest(Shallower(lines, c, lines[c].indent))
          BY <2>1, OwnerIs
        <4>6. Shallower(lines, c, lines[c].indent) \in SUBSET (1..c-1) /\ c - 1 \in Nat
          BY <4>5, AboveIs
        <4> HIDE DEF q, o
        <4> QED
          BY <4>4, <4>5, <4>6, NearestIs
      <3> QED
        BY <3>1, <3>2
    <2>4. CASE q = o
      <3>1. D(c) = D(a)
        BY <1>7, <2>2, <2>4
      <3>2. D(c) \in Nat
        <4>1. tree[P[c]] \in Nodes
          BY <1>1, <2>2
        <4> QED
          BY <4>1 DEF Nodes
      <3> HIDE DEF D
      <3> QED
        BY <3>1, <3>2
    <2>5. CASE q # o
      <3>1. q # 0 /\ o < q /\ q < c /\ q \in 1..a-1
        <4> HIDE DEF q, o
        <4> QED
          BY <1>2, <2>1, <2>2, <2>3, <2>5
      <3>2. lines[q].kind = "item" /\ q \in 1..Len(lines) /\ lines[q] # Blank
        BY <2>2, <3>1
      <3>3. q \in ItemsAbove(lines, a)
        BY <3>1, <3>2 DEF ItemsAbove
      <3>4. D(q) >= D(a)
        BY <1>8, <3>1, <3>3
      <3>5. P[q] \in 1..Len(tree)
        BY <3>2, NodeOfLine
      <3>6. Depth(tree, P[q]) = D(q) /\ D(q) \in Nat
        <4>1. tree[P[q]] \in Nodes
          BY <1>1, <3>5
        <4>2. P[q] # 0
          BY <3>5
        <4> QED
          BY <4>1, <4>2 DEF Depth, Nodes
      <3>7. D(a) \in Nat
        <4>1. P[a] \in 1..Len(tree)
          BY <1>1, NodeOfLine
        <4>2. tree[P[a]] \in Nodes
          BY <1>1, <4>1
        <4> QED
          BY <4>2 DEF Nodes
      <3>8. D(c) = D(q) + 1
        BY <2>2, <3>6
      <3> HIDE DEF D
      <3> QED
        BY <3>4, <3>6, <3>7, <3>8
    <2> QED
      BY <2>4, <2>5
  <1>9. 0 \in A
    <2>1. ASSUME NEW c \in ItemsAbove(lines, a), o < c, c <= 0 PROVE FALSE
      BY <1>2, <2>1 DEF ItemsAbove
    <2> QED
      BY <2>1
  <1>10. ASSUME NEW n \in Nat, n \in A PROVE n + 1 \in A
    <2>1. ASSUME NEW c \in ItemsAbove(lines, a), o < c, c <= n + 1 PROVE D(c) >= D(a)
      <3>1. ASSUME NEW b \in ItemsAbove(lines, a), o < b, b < c PROVE D(b) >= D(a)
        <4>1. b <= n
          BY <2>1, <3>1 DEF ItemsAbove
        <4> QED
          BY <1>10, <3>1, <4>1
      <3> HIDE DEF D
      <3> QED
        BY <1>8, <2>1, <3>1
    <2> QED
      BY <2>1
  <1>11. a \in A
    <2> HIDE DEF A
    <2>1. a \in Nat
      OBVIOUS
    <2> QED
      BY <1>9, <1>10, <2>1, NatSetInduction
  <1>12. \A c \in ItemsAbove(lines, a) : c <= a
    BY DEF ItemsAbove
  <1> QED
    BY <1>11, <1>12

(* What load builds is a sound tree.                                        *)
LEMMA LoadedIsSound ==
    ASSUME NEW lines \in Seq(Lines), NEW P, NEW tree,
           Places(lines, P), TreeFits(lines, P, Len(lines), tree), Readable(lines)
    PROVE  TreeSound(tree)
  <1>1. tree \in Seq(Nodes) /\ Len(tree) = P[Len(lines)] /\ Len(lines) \in Nat
        /\ Len(lines) \in 0..Len(lines)
    BY DEF TreeFits
  <1>2. \A k \in 1..Len(tree) : \E c \in 1..Len(lines) : lines[c] # Blank /\ P[c] = k
    BY <1>1, PlacesFilled
  <1>3. ASSUME NEW j \in 1..Len(tree)
        PROVE  /\ tree[j].parent \in 0..j-1
               /\ tree[j].parent # 0 => IsItem(tree, tree[j].parent)
               /\ tree[j].depth = Depth(tree, tree[j].parent) + 1
               /\ \A i \in 1..j-1 : IsItem(tree, i) /\ tree[j].parent < i =>
                     IsItem(tree, j) /\ tree[i].depth >= tree[j].depth
    <2>1. PICK a \in 1..Len(lines) : lines[a] # Blank /\ P[a] = j
      BY <1>2
    <2> DEFINE o == Owner(lines, a)
    <2>2. tree[j].parent = P[o] /\ tree[j].depth = Depth(tree, P[o]) + 1 /\ P[o] \in 0..j-1
      BY <2>1, NodeOfLine
    <2>3. /\ o \in 0..a-1 /\ lines[a].kind \in {"comment", "item"}
          /\ o # 0 => o \in 1..Len(lines) /\ lines[o].kind = "item" /\ lines[o] # Blank
      BY <2>1, NodeOfLine
    <2>4. IsItem(tree, j) <=> lines[a].kind = "item"
      BY <2>1, NodeOfLine
    <2> HIDE DEF o
    <2>5. ASSUME P[o] # 0 PROVE IsItem(tree, P[o])
      <3>1. o # 0
        BY <2>5 DEF Places
      <3>2. o \in 1..Len(lines) /\ lines[o].kind = "item" /\ lines[o] # Blank
        BY <2>3, <3>1
      <3> QED
        BY <3>2, NodeOfLine
    <2>6. ASSUME NEW i \in 1..j-1, IsItem(tree, i), P[o] < i
          PROVE  IsItem(tree, j) /\ tree[i].depth >= tree[j].depth
      <3>1. i \in 1..Len(tree)
        BY <1>1
      <3>2. PICK c \in 1..Len(lines) : lines[c] # Blank /\ P[c] = i
        BY <1>2, <3>1
      <3>3. lines[c].kind = "item"
        BY <2>6, <3>2, NodeOfLine
      <3>4. c < a
        <4>1. ASSUME a <= c PROVE FALSE
          <5>1. c \in 0..Len(lines) /\ a \in 0..c
            BY <4>1
          <5>2. P[a] <= P[c]
            BY <1>1, <5>1, PlacesRise
          <5> QED
            BY <2>1, <2>6, <3>2, <5>2
        <4> QED
          BY <4>1
      <3>5. c \in ItemsAbove(lines, a)
        BY <3>3, <3>4 DEF ItemsAbove
      <3>6. o < c
        <4>1. ASSUME c <= o PROVE FALSE
          <5>1. o \in 0..Len(lines) /\ c \in 0..o
            BY <2>3, <4>1
          <5>2. P[c] <= P[o]
            BY <1>1, <5>1, PlacesRise
          <5> QED
            BY <2>2, <2>6, <3>2, <5>2
        <4> QED
          BY <2>3, <4>1
      <3>7. lines[a].kind = "item"
        <4>1. ASSUME lines[a].kind # "item" PROVE FALSE
          <5>1. o = LastItem(lines, a) /\ a \in 1..Len(lines) + 1
            BY <4>1, OwnerIs DEF o
          <5>2. c <= o
            BY <3>5, <5>1, LastIs
          <5> QED
            BY <2>3, <3>6, <5>2
        <4> QED
          BY <4>1
      <3>8. tree[P[c]].depth >= tree[P[a]].depth
        BY <3>5, <3>6, <3>7, BetweenDeeper DEF o
      <3> QED
        BY <2>1, <2>4, <3>2, <3>7, <3>8
    <2> QED
      BY <2>2, <2>5, <2>6
  <1> QED
    BY <1>1, <1>3 DEF TreeSound

(* What save writes can be read, and says the same.                         *)
LEMMA SavedLines ==
    ASSUME NEW tree, TreeSound(tree)
    PROVE  /\ save(tree) \in Seq(Lines) /\ Len(save(tree)) = Len(tree)
           /\ \A j \in 1..Len(tree) :
                 /\ save(tree)[j] # Blank
                 /\ save(tree)[j].kind = IF IsItem(tree, j) THEN "item" ELSE "comment"
                 /\ IsItem(tree, j) => /\ save(tree)[j].indent = tree[j].depth - 1
                                       /\ save(tree)[j].indent \in Nat
                 /\ KeyOf(save(tree)[j]) = tree[j].key
                 /\ save(tree)[j].val = tree[j].val
                 /\ tree[j] \in Nodes
  <1> DEFINE n == Len(tree)
  <1>1. tree \in Seq(Nodes) /\ n \in Nat /\ DOMAIN tree = 1..n /\ Len(tree) = n
    BY DEF TreeSound
  <1> HIDE DEF n
  <1>2. save(tree) = [j \in 1..n |-> SavedLine(tree, j)]
    BY <1>1 DEF save
  <1>3. ASSUME NEW j \in 1..n
        PROVE  /\ SavedLine(tree, j) \in Lines /\ SavedLine(tree, j) # Blank
               /\ SavedLine(tree, j).kind = IF IsItem(tree, j) THEN "item" ELSE "comment"
               /\ IsItem(tree, j) => /\ SavedLine(tree, j).indent = tree[j].depth - 1
                                     /\ SavedLine(tree, j).indent \in Nat
               /\ KeyOf(SavedLine(tree, j)) = tree[j].key
               /\ SavedLine(tree, j).val = tree[j].val
               /\ tree[j] \in Nodes
    <2> DEFINE l == SavedLine(tree, j)
               p == tree[j].parent
               d == Depth(tree, p)
    <2>1. tree[j] \in Nodes
      BY <1>1
    <2>2. tree[j].key \in Keys \cup {"#"} /\ tree[j].val \in STRING /\ tree[j].depth \in Nat
      BY <2>1 DEF Nodes
    <2>3. tree[j].depth = d + 1 /\ p \in 0..j-1
      BY <1>1 DEF TreeSound
    <2>4. d \in Nat
      <3> HIDE DEF p
      <3>1. CASE p = 0
        BY <3>1 DEF Depth
      <3>2. CASE p # 0
        <4>1. p \in 1..n
          BY <1>1, <2>3, <3>2
        <4>2. tree[p] \in Nodes
          BY <1>1, <4>1
        <4> QED
          BY <3>2, <4>2 DEF Depth, Nodes
      <3> QED
        BY <3>1, <3>2
    <2>5. l = IF tree[j].key = "#" THEN Comment(tree[j].val) ELSE Item(d, tree[j].key, tree[j].val)
      BY DEF SavedLine
    <2> HIDE DEF l, d
    <2>6. CASE tree[j].key = "#"
      <3>1. l = [kind |-> "comment", val |-> tree[j].val]
        BY <2>5, <2>6 DEF Comment
      <3>2. l \in Lines
        BY <2>2, <3>1 DEF Lines
      <3>3. l # Blank /\ l.kind = "comment" /\ l.val = tree[j].val /\ KeyOf(l) = "#"
        BY <3>1 DEF Blank, KeyOf
      <3> QED
        BY <2>1, <2>6, <3>2, <3>3 DEF l, IsItem
    <2>7. CASE tree[j].key # "#"
      <3>1. l = [kind |-> "item", indent |-> d, key |-> tree[j].key, val |-> tree[j].val]
        BY <2>5, <2>7 DEF Item
      <3>2. l \in Lines
        <4>1. tree[j].key \in Keys
          BY <2>2, <2>7
        <4> QED
          BY <2>2, <2>4, <3>1, <4>1 DEF Lines
      <3>3. l # Blank /\ l.kind = "item" /\ l.val = tree[j].val /\ KeyOf(l) = tree[j].key
            /\ l.indent = d
        BY <3>1 DEF Blank, KeyOf
      <3>4. d = tree[j].depth - 1
        BY <2>3, <2>4
      <3> QED
        BY <2>1, <2>4, <2>7, <3>2, <3>3, <3>4 DEF l, IsItem
    <2> QED
      BY <2>6, <2>7
  <1>4. save(tree) \in Seq(Lines) /\ Len(save(tree)) = n
    BY <1>1, <1>2, <1>3
  <1>5. \A j \in 1..n : save(tree)[j] = SavedLine(tree, j)
    BY <1>2
  <1> QED
    BY <1>1, <1>3, <1>4, <1>5

(* A saved line has for owner the parent of its node.                       *)
LEMMA SavedAbove ==
    ASSUME NEW tree, TreeSound(tree), NEW j \in 1..Len(tree)
    PROVE  /\ Owner(save(tree), j) = tree[j].parent
           /\ FitsAt(save(tree), j)
  <1> DEFINE s == save(tree)
             p == tree[j].parent
             A == ItemsAbove(s, j)
  <1>1. /\ s \in Seq(Lines) /\ Len(s) = Len(tree)
        /\ \A i \in 1..Len(tree) :
              /\ s[i] # Blank
              /\ s[i].kind = IF IsItem(tree, i) THEN "item" ELSE "comment"
              /\ IsItem(tree, i) => /\ s[i].indent = tree[i].depth - 1
                                    /\ s[i].indent \in Nat
              /\ tree[i] \in Nodes
    BY SavedLines
  <1> HIDE DEF s
  <1>2. tree \in Seq(Nodes) /\ Len(tree) \in Nat /\ j \in 1..Len(s) /\ j \in 1..Len(s) + 1
        /\ j - 1 \in Nat
    BY <1>1 DEF TreeSound
  <1>3. A = {i \in 1..j-1 : IsItem(tree, i)}
    <2>1. ASSUME NEW i \in 1..j-1 PROVE s[i].kind = "item" <=> IsItem(tree, i)
      <3>1. i \in 1..Len(tree)
        BY <1>2
      <3> QED
        BY <1>1, <3>1
    <2> QED
      BY <2>1 DEF ItemsAbove
  <1>4. /\ p \in 0..j-1 /\ (p # 0 => IsItem(tree, p)) /\ tree[j].depth = Depth(tree, p) + 1
        /\ \A i \in 1..j-1 : IsItem(tree, i) /\ p < i =>
                IsItem(tree, j) /\ tree[i].depth >= tree[j].depth
    BY DEF TreeSound
  <1>5. p # 0 => p \in A
    BY <1>3, <1>4
  <1>6. \A i \in 1..j : tree[i].depth \in Nat /\ (IsItem(tree, i) => s[i].indent = tree[i].depth - 1)
    <2>1. ASSUME NEW i \in 1..j PROVE tree[i] \in Nodes /\ i \in 1..Len(tree)
      <3>1. i \in 1..Len(tree)
        BY <1>2
      <3> QED
        BY <1>1, <3>1
    <2> QED
      BY <1>1, <2>1 DEF Nodes
  <1>7. p # 0 => tree[j].depth = tree[p].depth + 1 /\ p \in 1..j /\ p \in 1..j-1
    BY <1>4 DEF Depth
  <1>8. p = 0 => tree[j].depth = 1
    BY <1>4 DEF Depth
  <1> HIDE DEF p, A
  <1>9. A \in SUBSET (1..j-1) /\ \A e : Shallower(s, j, e) \in SUBSET (1..j-1)
    BY <1>1, <1>2, AboveIs DEF A
  <1>10. CASE IsItem(tree, j)
    <2>1. s[j].kind = "item" /\ s[j].indent = tree[j].depth - 1 /\ tree[j].depth \in Nat
      BY <1>1, <1>2, <1>6, <1>10
    <2>2. \A i \in A : i \in 1..j /\ s[i].indent = tree[i].depth - 1 /\ tree[i].depth \in Nat
                       /\ (p < i => tree[i].depth >= tree[j].depth)
      <3>1. ASSUME NEW i \in A
            PROVE  i \in 1..j /\ s[i].indent = tree[i].depth - 1 /\ tree[i].depth \in Nat
                   /\ (p < i => tree[i].depth >= tree[j].depth)
        <4>1. i \in 1..j-1 /\ IsItem(tree, i) /\ i \in 1..j
          BY <1>2, <1>3
        <4> QED
          BY <1>4, <1>6, <4>1
      <3> QED
        BY <3>1
    <2> DEFINE B == Shallower(s, j, s[j].indent)
    <2>3. B = {i \in A : s[i].indent < s[j].indent}
      BY DEF Shallower, A
    <2>4. \A i \in B : i <= p
      <3>1. ASSUME NEW i \in B, ~(i <= p) PROVE FALSE
        <4>1. i \in A /\ s[i].indent < s[j].indent /\ i \in 1..j
          BY <2>2, <2>3
        <4>2. p < i
          BY <1>4, <3>1, <4>1
        <4> QED
          BY <2>1, <2>2, <4>1, <4>2
      <3> QED
        BY <3>1
    <2>5. p # 0 => p \in B
      <3>1. ASSUME p # 0 PROVE p \in B
        <4>1. p \in A /\ tree[j].depth = tree[p].depth + 1
          BY <1>5, <1>7, <3>1
        <4>2. s[p].indent < s[j].indent
          BY <2>1, <2>2, <4>1
        <4> QED
          BY <2>3, <4>1, <4>2
      <3> QED
        BY <3>1
    <2>6. B \in SUBSET (1..j-1)
      BY <1>9
    <2> HIDE DEF B
    <2>7. Nearest(B) = p
      <3>1. CASE p = 0
        <4>1. B = {}
          BY <2>4, <2>6, <3>1
        <4> QED
          BY <1>2, <2>6, <3>1, <4>1, NearestIs
      <3>2. CASE p # 0
        BY <1>2, <2>4, <2>5, <2>6, <3>2, NearestUnique
      <3> QED
        BY <3>1, <3>2
    <2>8. Owner(s, j) = p
      BY <1>1, <1>2, <2>1, <2>7, OwnerIs DEF B
    <2>9. s[j].indent <= 1 + LastIndent(s, j)
      <3> DEFINE l == LastItem(s, j)
      <3>1. /\ l \in 0..j-1 /\ (l = 0 => A = {}) /\ (l # 0 => l \in A)
            /\ \A i \in A : i <= l
        BY <1>1, <1>2, LastIs DEF A
      <3>2. LastIndent(s, j) = IF l = 0 THEN 0 ELSE s[l].indent
        BY DEF LastIndent
      <3> HIDE DEF l
      <3>3. CASE l = 0
        <4>1. p = 0
          BY <1>5, <3>1, <3>3
        <4> QED
          BY <1>8, <2>1, <3>2, <3>3, <4>1
      <3>4. CASE l # 0
        <4>1. l \in A /\ s[l].indent = tree[l].depth - 1 /\ tree[l].depth \in Nat
              /\ (p < l => tree[l].depth >= tree[j].depth)
          BY <2>2, <3>1, <3>4
        <4>2. tree[j].depth <= tree[l].depth + 1
          <5>1. CASE p < l
            BY <2>1, <4>1, <5>1
          <5>2. CASE ~(p < l)
            <6>1. p # 0
              BY <3>1, <3>4, <5>2
            <6>2. p = l
              BY <1>4, <1>5, <3>1, <5>2, <6>1
            <6> QED
              BY <1>7, <4>1, <6>1, <6>2
          <5> QED
            BY <5>1, <5>2
        <4> QED
          BY <2>1, <3>2, <3>4, <4>1, <4>2
      <3> QED
        BY <3>3, <3>4
    <2> QED
      BY <2>1, <2>8, <2>9 DEF FitsAt, s, p
  <1>11. CASE ~IsItem(tree, j)
    <2>1. s[j].kind = "comment"
      BY <1>1, <1>2, <1>11
    <2>2. \A i \in A : i <= p
      <3>1. ASSUME NEW i \in A, ~(i <= p) PROVE FALSE
        <4>1. i \in 1..j-1 /\ IsItem(tree, i) /\ p < i
          BY <1>3, <1>4, <3>1
        <4> QED
          BY <1>4, <1>11, <4>1
      <3> QED
        BY <3>1
    <2>3. Nearest(A) = p
      <3>1. CASE p = 0
        <4>1. A = {}
          BY <1>9, <2>2, <3>1
        <4> QED
          BY <1>2, <1>9, <3>1, <4>1, NearestIs
      <3>2. CASE p # 0
        BY <1>2, <1>5, <1>9, <2>2, <3>2, NearestUnique
      <3> QED
        BY <3>1, <3>2
    <2>4. Owner(s, j) = p
      BY <1>1, <1>2, <2>1, <2>3, OwnerIs DEF LastItem, A
    <2> QED
      BY <2>1, <2>4 DEF FitsAt, s, p
  <1> QED
    BY <1>10, <1>11

LEMMA SavingKeeps ==
    ASSUME NEW tree, TreeSound(tree)
    PROVE  load(save(tree)) = tree
  <1> DEFINE s == save(tree)
             P == Place(s)
             n == Len(tree)
             u == load(s)
  <1>1. /\ s \in Seq(Lines) /\ Len(s) = n
        /\ \A j \in 1..n : /\ s[j] # Blank /\ KeyOf(s[j]) = tree[j].key /\ s[j].val = tree[j].val
                           /\ tree[j] \in Nodes
    BY SavedLines
  <1>2. \A j \in 1..n : Owner(s, j) = tree[j].parent /\ FitsAt(s, j)
    BY SavedAbove
  <1> HIDE DEF s
  <1>3. tree \in Seq(Nodes) /\ n \in Nat /\ DOMAIN s = 1..n
    BY <1>1 DEF TreeSound
  <1>4. Readable(s)
    BY <1>2, <1>3, ReadableIs
  <1>5. Places(s, P) /\ TreeFits(s, P, Len(s), u)
    BY <1>1, <1>4, LoadFits
  <1> HIDE DEF P, u
  <1>6. \A j \in 0..n : P[j] = j
    <2> DEFINE A == {i \in Nat : i <= n => P[i] = i}
    <2>1. 0 \in A
      BY <1>5 DEF Places
    <2>2. ASSUME NEW i \in Nat, i \in A PROVE i + 1 \in A
      <3> SUFFICES ASSUME i + 1 <= n PROVE P[i + 1] = i + 1
        OBVIOUS
      <3>1. i + 1 \in 1..Len(s) /\ i + 1 - 1 = i /\ P[i] = i /\ s[i + 1] # Blank
        BY <1>1, <1>3, <2>2
      <3>2. P[i + 1] = P[i] + 1
        BY <1>5, <3>1 DEF Places
      <3> QED
        BY <3>1, <3>2
    <2>3. Nat \subseteq A
      <3> HIDE DEF A
      <3> QED
        BY <2>1, <2>2, NatSetInduction
    <2> QED
      BY <2>3
  <1>7. n \in 0..n /\ Len(u) = n /\ u \in Seq(Nodes)
    <2>1. n \in 0..n
      BY <1>3
    <2>2. Len(u) = P[Len(s)] /\ u \in Seq(Nodes)
      BY <1>5 DEF TreeFits
    <2> HIDE DEF n
    <2> QED
      BY <1>1, <1>6, <2>1, <2>2
  <1>8. ASSUME NEW j \in 1..n, \A i \in 1..j-1 : u[i] = tree[i] PROVE u[j] = tree[j]
    <2> DEFINE p == tree[j].parent
    <2>1. p \in 0..j-1 /\ tree[j].depth = Depth(tree, p) + 1 /\ tree[j] \in Nodes
      BY <1>1 DEF TreeSound
    <2>2. j \in 1..Len(s) /\ j \in 0..n /\ s[j] # Blank /\ p \in 0..n
      BY <1>1, <1>3, <2>1
    <2>3. NodeFits(s, P, u, j)
      BY <1>5, <2>2 DEF TreeFits
    <2>4. Owner(s, j) = p /\ P[p] = p /\ P[j] = j
      BY <1>2, <1>6, <2>2
    <2> HIDE DEF p
    <2>5. u[j] = [parent |-> p, depth |-> Depth(u, p) + 1, key |-> tree[j].key, val |-> tree[j].val]
      BY <1>1, <2>3, <2>4 DEF NodeFits
    <2>6. Depth(u, p) = Depth(tree, p)
      <3>1. p = 0 \/ p \in 1..j-1
        BY <2>1
      <3> QED
        BY <1>8, <3>1 DEF Depth
    <2>7. tree[j] = [parent |-> tree[j].parent, depth |-> tree[j].depth,
                     key |-> tree[j].key, val |-> tree[j].val]
      BY <2>1 DEF Nodes
    <2> QED
      BY <2>1, <2>5, <2>6, <2>7 DEF p
  <1>9. \A j \in 1..n : u[j] = tree[j]
    <2> DEFINE A == {k \in Nat : \A i \in 1..n : i <= k => u[i] = tree[i]}
    <2>1. 0 \in A
      OBVIOUS
    <2>2. ASSUME NEW k \in Nat, k \in A PROVE k + 1 \in A
      <3>1. ASSUME NEW i \in 1..n, i <= k + 1 PROVE u[i] = tree[i]
        <4>1. CASE i <= k
          BY <2>2, <4>1
        <4>2. CASE i = k + 1
          <5>1. ASSUME NEW h \in 1..i-1 PROVE u[h] = tree[h]
            <6>1. h \in 1..n /\ h <= k
              BY <1>3, <4>2
            <6> QED
              BY <2>2, <6>1
          <5> QED
            BY <1>8, <5>1
        <4> QED
          BY <3>1, <4>1, <4>2
      <3> QED
        BY <3>1
    <2>3. Nat \subseteq A
      <3> HIDE DEF A
      <3> QED
        BY <2>1, <2>2, NatSetInduction
    <2> QED
      BY <1>3, <2>3
  <1>10. u = tree
    BY <1>3, <1>7, <1>9, SeqEqual
  <1> QED
    BY <1>10 DEF u, s

(* What save writes of a loaded tree loads to the same tree.                *)
LEMMA SurvivesRight == ASSUME NEW lines \in Seq(Lines) PROVE SurvivesSaving(lines)
  <1>1. SUFFICES ASSUME load(lines) # NoConfig PROVE load(save(load(lines))) = load(lines)
    BY DEF SurvivesSaving
  <1>2. Readable(lines)
    BY <1>1, LoadFits
  <1>3. Places(lines, Place(lines)) /\ TreeFits(lines, Place(lines), Len(lines), load(lines))
    BY <1>2, LoadFits
  <1>4. TreeSound(load(lines))
    BY <1>2, <1>3, LoadedIsSound
  <1> QED
    BY <1>4, SavingKeeps

-----------------------------------------------------------------------------
(* Two keys down a path.                                                    *)
IsGet(f, tree, path) ==
    f = [n \in 0..Len(path) |->
           IF n = 0 THEN 0
           ELSE IF n > 1 /\ f[n - 1] = 0 THEN 0
           ELSE find_child(tree, f[n - 1], path[n])]

(* get takes a path of two keys in two steps.                               *)
LEMMA GetIs ==
    ASSUME NEW tree, NEW a, NEW b
    PROVE  LET x == find_child(tree, 0, a)
           IN  get(tree, <<a, b>>) = IF x = 0 THEN 0 ELSE find_child(tree, x, b)
  <1> DEFINE path == <<a, b>>
             x == find_child(tree, 0, a)
             y == IF x = 0 THEN 0 ELSE find_child(tree, x, b)
             g == CHOOSE f : IsGet(f, tree, path)
             F(i, z) == find_child(tree, z, path[i])
  <1>1. Len(path) = 2 /\ path[1] = a /\ path[2] = b
    OBVIOUS
  <1>2. F(1, 0) = x /\ (x # 0 => y = F(2, x)) /\ (x = 0 => y = 0)
    BY <1>1
  <1>3. get(tree, path) = g[Len(path)]
    BY DEF get, IsGet
  <1> HIDE DEF path, x, y, F
  <1>4. \E f : IsGet(f, tree, path)
    <2> DEFINE h == [n \in 0..2 |-> IF n = 0 THEN 0 ELSE IF n = 1 THEN x ELSE y]
               r == [n \in 0..2 |-> IF n = 0 THEN 0
                                    ELSE IF n > 1 /\ h[n - 1] = 0 THEN 0 ELSE F(n, h[n - 1])]
    <2>1. h[0] = 0 /\ h[1] = x /\ h[2] = y /\ DOMAIN h = 0..2 /\ h = [n \in DOMAIN h |-> h[n]]
      OBVIOUS
    <2> HIDE DEF h
    <2>2. ASSUME NEW n \in 0..2
          PROVE  h[n] = IF n = 0 THEN 0
                        ELSE IF n > 1 /\ h[n - 1] = 0 THEN 0 ELSE F(n, h[n - 1])
      <3>1. CASE n = 0
        BY <2>1, <3>1
      <3>2. CASE n = 1
        <4>1. n - 1 = 0 /\ ~(n > 1) /\ n # 0
          BY <3>2
        <4> QED
          BY <1>2, <2>1, <3>2, <4>1
      <3>3. CASE n = 2
        <4>1. n - 1 = 1 /\ n > 1 /\ n # 0
          BY <3>3
        <4> QED
          BY <1>2, <2>1, <3>3, <4>1
      <3> QED
        BY <3>1, <3>2, <3>3
    <2>3. h = r
      BY <2>1, <2>2
    <2>4. IsGet(h, tree, path)
      BY <1>1, <2>3 DEF IsGet, F
    <2> QED
      BY <2>4
  <1>5. IsGet(g, tree, path)
    <2> HIDE DEF g
    <2> QED
      BY <1>4, Zenon DEF g
  <1> HIDE DEF g
  <1>6. g = [n \in 0..2 |-> IF n = 0 THEN 0
                            ELSE IF n > 1 /\ g[n - 1] = 0 THEN 0 ELSE F(n, g[n - 1])]
    BY <1>1, <1>5 DEF IsGet, F
  <1>7. g[0] = 0
    BY <1>6
  <1>8. g[1] = F(1, 0)
    <2>1. 1 \in 0..2 /\ 1 - 1 = 0 /\ ~(1 > 1)
      OBVIOUS
    <2> QED
      BY <1>6, <1>7, <2>1
  <1>9. g[2] = IF g[1] = 0 THEN 0 ELSE F(2, g[1])
    <2>1. 2 \in 0..2 /\ 2 - 1 = 1 /\ 2 > 1
      OBVIOUS
    <2> QED
      BY <1>6, <2>1
  <1>10. g[2] = y
    BY <1>2, <1>8, <1>9
  <1> QED
    BY <1>1, <1>3, <1>10 DEF path, x, y

(* The last child of a name is the last of them in the file.                *)
LEMMA FindsLast ==
    ASSUME NEW lines \in Seq(Lines), NEW P, NEW tree, NEW p \in 0..Len(lines), NEW key \in Keys,
           NEW S \in SUBSET (1..Len(lines)),
           Places(lines, P), TreeFits(lines, P, Len(lines), tree), Readable(lines),
           p = 0 \/ lines[p] # Blank,
           \A c \in 1..Len(lines) :
              c \in S <=> lines[c].kind = "item" /\ lines[c].key = key /\ Owner(lines, c) = p
    PROVE  find_child(tree, P[p], key) = P[Nearest(S)]
  <1> DEFINE n == Len(tree)
             F == {j \in DOMAIN tree : tree[j].parent = P[p] /\ tree[j].key = key}
             s == Nearest(S)
  <1>1. tree \in Seq(Nodes) /\ n = P[Len(lines)] /\ Len(lines) \in Nat /\ DOMAIN tree = 1..n
        /\ n \in Nat /\ Len(lines) \in 0..Len(lines)
    BY DEF TreeFits
  <1>2. find_child(tree, P[p], key) = Nearest(F)
    BY DEF find_child, Nearest
  <1>3. F \in SUBSET (1..n)
    BY <1>1
  <1>4. ASSUME NEW c \in S PROVE P[c] \in F
    <2>1. c \in 1..Len(lines) /\ lines[c].kind = "item" /\ lines[c].key = key /\ Owner(lines, c) = p
      OBVIOUS
    <2>2. lines[c] # Blank
      BY <2>1 DEF Blank
    <2>3. P[c] \in 1..Len(tree)
      BY <2>1, <2>2, NodeOfLine
    <2>4. tree[P[c]].parent = P[Owner(lines, c)]
      BY <2>1, <2>2, NodeOfLine
    <2>5. tree[P[c]].key = KeyOf(lines[c])
      BY <2>1, <2>2, NodeOfLine
    <2>6. KeyOf(lines[c]) = key
      BY <2>1 DEF KeyOf
    <2> QED
      BY <1>1, <2>1, <2>3, <2>4, <2>5, <2>6
  <1>5. ASSUME NEW j \in F PROVE \E c \in S : P[c] = j
    <2>1. j \in 1..n /\ tree[j].parent = P[p] /\ tree[j].key = key
      BY <1>1
    <2>2. PICK c \in 1..Len(lines) : lines[c] # Blank /\ P[c] = j
      <3>1. \A k \in 1..P[Len(lines)] : \E c \in 1..Len(lines) : lines[c] # Blank /\ P[c] = k
        BY <1>1, PlacesFilled
      <3>2. j \in 1..P[Len(lines)]
        BY <1>1, <2>1
      <3> QED
        BY <3>1, <3>2
    <2> DEFINE o == Owner(lines, c)
    <2>3. tree[j].parent = P[o] /\ tree[j].key = KeyOf(lines[c])
      BY <2>2, NodeOfLine
    <2>4. lines[c].kind \in {"comment", "item"} /\ o \in 0..c-1
      BY <2>2, NodeOfLine
    <2>5. o # 0 => o \in 1..Len(lines) /\ lines[o] # Blank
      BY <2>2, NodeOfLine
    <2> HIDE DEF o
    <2>6. lines[c].kind = "item" /\ lines[c].key = key
      BY <2>1, <2>3, <2>4 DEF KeyOf, Keys
    <2>7. o = p
      <3>1. o \in 0..Len(lines) /\ P[o] = P[p]
        BY <2>1, <2>3, <2>4
      <3>2. ASSUME o < p PROVE FALSE
        <4>1. p \in 0..Len(lines) /\ o \in 0..p /\ p # 0 /\ lines[p] # Blank
          BY <3>1, <3>2
        <4>2. P[o] < P[p] /\ P[o] \in Nat
          BY <1>1, <3>1, <3>2, <4>1, PlacesRise, PlacesType
        <4> QED
          BY <3>1, <4>2
      <3>3. ASSUME p < o PROVE FALSE
        <4>1. o \in 0..Len(lines) /\ p \in 0..o /\ o # 0 /\ lines[o] # Blank
          BY <2>5, <3>1, <3>3
        <4>2. P[p] < P[o] /\ P[o] \in Nat
          BY <1>1, <3>3, <4>1, PlacesRise, PlacesType
        <4> QED
          BY <3>1, <4>2
      <3> QED
        BY <3>1, <3>2, <3>3
    <2>8. c \in S
      BY <2>6, <2>7 DEF o
    <2> QED
      BY <2>2, <2>8
  <1> HIDE DEF F, n
  <1>6. /\ S = {} => s = 0
        /\ S # {} => s \in S
        /\ \A c \in S : c <= s
    BY <1>1, NearestIs
  <1> HIDE DEF s
  <1>7. CASE S = {}
    <2>1. F = {}
      BY <1>5, <1>7
    <2>2. Nearest(F) = 0
      BY <1>1, <1>3, <2>1, NearestIs
    <2> QED
      BY <1>2, <1>6, <1>7, <2>2 DEF Places, s
  <1>8. CASE S # {}
    <2>1. s \in S /\ P[s] \in F /\ s \in 0..Len(lines)
      <3>1. s \in S
        BY <1>6, <1>8
      <3>2. P[s] \in F
        BY <1>4, <3>1
      <3>3. s \in 1..Len(lines)
        BY <3>1
      <3> QED
        BY <1>1, <3>1, <3>2, <3>3
    <2>2. ASSUME NEW j \in F PROVE j <= P[s]
      <3>1. PICK c \in S : P[c] = j
        BY <1>5
      <3>2. c <= s /\ c \in 0..s
        BY <1>6, <2>1
      <3>3. P[c] <= P[s]
        BY <1>1, <2>1, <3>2, PlacesRise
      <3> QED
        BY <3>1, <3>3
    <2>3. Nearest(F) = P[s]
      BY <1>1, <1>3, <2>1, <2>2, NearestUnique
    <2> QED
      BY <1>2, <2>3 DEF s
  <1> QED
    BY <1>7, <1>8

(* An owner is one less deep.                                               *)
LEMMA OwnerIndent ==
    ASSUME NEW lines \in Seq(Lines), Readable(lines), NEW i \in 1..Len(lines),
           lines[i].kind = "item"
    PROVE  Owner(lines, i) # 0 => lines[Owner(lines, i)].indent = lines[i].indent - 1
  <1> DEFINE d == lines[i].indent
             b == Nearest(Shallower(lines, i, d))
  <1>1. \A j \in 1..Len(lines) : FitsAt(lines, j)
    BY ReadableIs
  <1>2. d \in Nat /\ d <= LastIndent(lines, i) + 1 /\ i \in 1..Len(lines) + 1
    <2>1. lines[i] \in Lines /\ i \in 1..Len(lines) + 1
      OBVIOUS
    <2>2. d \in Nat
      BY <2>1, LineIs
    <2>3. d <= 1 + LastIndent(lines, i)
      BY <1>1 DEF FitsAt
    <2>4. LastIndent(lines, i) \in Nat
      BY <2>1, LastIs
    <2> HIDE DEF d
    <2> QED
      BY <2>1, <2>2, <2>3, <2>4
  <1>3. Owner(lines, i) = b
    BY OwnerIs
  <1>4. CASE d = 0
    <2>1. Shallower(lines, i, d) = {}
      <3>1. ASSUME NEW j \in Shallower(lines, i, d) PROVE FALSE
        <4>1. j \in ItemsAbove(lines, i) /\ lines[j].indent < 0
          BY <1>4 DEF Shallower
        <4>2. lines[j].indent \in Nat
          BY <1>2, <4>1, AboveIs
        <4> QED
          BY <4>1, <4>2
      <3> QED
        BY <3>1
    <2>2. b = 0
      BY <2>1 DEF Nearest
    <2> QED
      BY <1>3, <2>2
  <1>5. CASE d # 0
    <2>1. d \in Nat \ {0} /\ \A j \in 1..i-1 : FitsAt(lines, j)
      BY <1>1, <1>2, <1>5
    <2> HIDE DEF d
    <2>2. b # 0 => lines[b].indent = d - 1
      BY <1>2, <2>1, ShallowerStep
    <2> QED
      BY <1>3, <2>2 DEF d
  <1> QED
    BY <1>4, <1>5

(* get finds the last key of a name in the last section of a name.          *)
LEMMA GetsRight ==
    ASSUME NEW lines \in Seq(Lines), NEW section \in Keys, NEW key \in Keys,
           load(lines) # NoConfig, StartsFlush(lines)
    PROVE  GetsTheLast(lines, section, key)
  <1> DEFINE N == Len(lines)
             P == Place(lines)
             tree == load(lines)
             s == LastOf(lines, 1, 0, section)
             S == {i \in 1..N : lines[i].kind = "item" /\ lines[i].key = section
                                /\ Owner(lines, i) = 0}
             K == {i \in 1..N : lines[i].kind = "item" /\ lines[i].key = key
                                /\ Owner(lines, i) = s}
  <1>1. Readable(lines)
    BY LoadFits
  <1>2. Places(lines, P) /\ TreeFits(lines, P, N, tree)
    BY <1>1, LoadFits
  <1>3. N \in Nat /\ DOMAIN lines = 1..N
    OBVIOUS
  <1>4. \A i \in 1..N : lines[i].kind = "item" => lines[i].indent \in Nat
    <2>1. ASSUME NEW i \in 1..N PROVE lines[i] \in Lines
      OBVIOUS
    <2> QED
      BY <2>1, LineIs
  <1>5. ASSUME NEW i \in 1..N, lines[i].kind = "item"
        PROVE  /\ Owner(lines, i) \in 0..i-1
               /\ Owner(lines, i) # 0 => /\ Owner(lines, i) \in ItemsAbove(lines, i)
                                         /\ lines[Owner(lines, i)].indent = lines[i].indent - 1
               /\ \A j \in ItemsAbove(lines, i) :
                     lines[j].indent < lines[i].indent => j <= Owner(lines, i)
    <2> DEFINE o == Owner(lines, i)
               B == Shallower(lines, i, lines[i].indent)
    <2>1. o \in 0..i-1 /\ (o # 0 => o \in ItemsAbove(lines, i)) /\ o = Nearest(B)
      BY <1>5, OwnerIs
    <2>2. o # 0 => lines[o].indent = lines[i].indent - 1
      BY <1>1, <1>5, OwnerIndent
    <2>3. i \in 1..Len(lines) + 1
      OBVIOUS
    <2>4. B \in SUBSET (1..i-1) /\ i - 1 \in Nat
      BY <2>3, AboveIs
    <2>5. \A j \in B : j <= o
      BY <2>1, <2>4, NearestIs
    <2> QED
      BY <2>1, <2>2, <2>5 DEF Shallower
  <1> HIDE DEF P, tree
  <1>6. s = Nearest(S)
    <2> DEFINE items == {i \in 1..N : lines[i].kind = "item"}
               ends == {i \in items : lines[i].indent < 0}
               T == {i \in items : /\ lines[i].indent = 0 /\ lines[i].key = section
                                   /\ \A e \in ends : i < e}
    <2>1. s = Nearest(T)
      BY DEF LastOf
    <2>2. ends = {}
      BY <1>4
    <2>3. ASSUME NEW i \in 1..N, lines[i].kind = "item"
          PROVE  Owner(lines, i) = 0 <=> lines[i].indent = 0
      <3>1. ASSUME lines[i].indent = 0, Owner(lines, i) # 0 PROVE FALSE
        <4>1. Owner(lines, i) \in 1..N /\ lines[Owner(lines, i)].kind = "item"
              /\ lines[Owner(lines, i)].indent = 0 - 1
          BY <1>5, <2>3, <3>1 DEF ItemsAbove
        <4> QED
          BY <1>4, <4>1
      <3>2. ASSUME lines[i].indent # 0, Owner(lines, i) = 0 PROVE FALSE
        <4>1. items \in SUBSET (1..N) /\ items # {}
          BY <2>3
        <4> HIDE DEF items
        <4>2. PICK f \in items : \A k \in items : f <= k
          BY <1>3, <4>1, LeastExists
        <4> USE DEF items
        <4>3. f \in 1..N /\ lines[f].kind = "item" /\ f <= i /\ i \in items
          BY <2>3, <4>2
        <4>4. ItemsAbove(lines, f) = {}
          <5>1. ASSUME NEW j \in ItemsAbove(lines, f) PROVE FALSE
            <6>1. j \in 1..f-1 /\ lines[j].kind = "item"
              BY DEF ItemsAbove
            <6>2. j \in items /\ j < f
              BY <4>3, <6>1
            <6> QED
              BY <4>2, <4>3, <6>2
          <5> QED
            BY <5>1
        <4>5. lines[f].indent = 0
          BY <1>3, <4>3, <4>4 DEF StartsFlush
        <4>6. f # i /\ f \in 1..i-1
          BY <3>2, <4>3, <4>5
        <4>7. f \in ItemsAbove(lines, i)
          BY <4>3, <4>6 DEF ItemsAbove
        <4>8. lines[f].indent < lines[i].indent
          BY <1>4, <2>3, <3>2, <4>5
        <4>9. f <= Owner(lines, i)
          BY <1>5, <2>3, <4>7, <4>8
        <4> QED
          BY <3>2, <4>3, <4>9
      <3> QED
        BY <3>1, <3>2
    <2>4. ASSUME NEW i \in 1..N PROVE i \in S <=> i \in T
      BY <2>2, <2>3
    <2>5. S \subseteq 1..N /\ T \subseteq 1..N
      OBVIOUS
    <2>6. S = T
      <3> HIDE DEF S, T
      <3> QED
        BY <2>4, <2>5
    <2> QED
      BY <2>1, <2>6
  <1>7. S \in SUBSET (1..N)
    OBVIOUS
  <1>8. find_child(tree, P[0], section) = P[s]
    <2>1. \A c \in 1..N : c \in S <=> lines[c].kind = "item" /\ lines[c].key = section
                                      /\ Owner(lines, c) = 0
      OBVIOUS
    <2>2. 0 \in 0..Len(lines)
      BY <1>3
    <2> HIDE DEF S
    <2> QED
      BY <1>1, <1>2, <1>6, <1>7, <2>1, <2>2, FindsLast
  <1>9. s \in 0..N /\ (s # 0 => s \in S)
    <2> HIDE DEF S, s
    <2>1. 0 \notin S
      BY <1>7
    <2> QED
      BY <1>3, <1>6, <1>7, <2>1, NearestIs
  <1>10. s # 0 => lines[s].kind = "item" /\ lines[s] # Blank
    BY <1>9 DEF Blank
  <1>11. P[0] = 0 /\ (s # 0 => P[s] # 0)
    <2>1. ASSUME s # 0 PROVE P[s] # 0
      <3> HIDE DEF s, S
      <3>1. 0 \in 0..s /\ 0 < s
        BY <1>3, <1>9, <2>1
      <3>2. P[0] < P[s]
        BY <1>2, <1>3, <1>9, <1>10, <2>1, <3>1, PlacesRise
      <3> QED
        BY <1>2, <3>2 DEF Places
    <2> QED
      BY <1>2, <2>1 DEF Places
  <1>12. get(tree, <<section, key>>) = IF P[s] = 0 THEN 0 ELSE find_child(tree, P[s], key)
    <2> HIDE DEF s
    <2> QED
      BY <1>8, <1>11, GetIs
  <1>13. CASE s = 0
    <2>1. get_str(tree, <<section, key>>) = ""
      BY <1>11, <1>12, <1>13 DEF get_str
    <2> QED
      BY <1>13, <2>1 DEF GetsTheLast, tree
  <1>14. CASE s # 0
    <2> DEFINE i == LastOf(lines, s + 1, 1, key)
    <2>1. lines[s].indent = 0
      <3>1. s \in 1..N /\ lines[s].kind = "item" /\ Owner(lines, s) = 0
        BY <1>9, <1>14
      <3> DEFINE items == {j \in 1..N : lines[j].kind = "item"}
      <3>2. s \in {j \in items : lines[j].indent = 0}
        <4> DEFINE ends == {j \in items : lines[j].indent < 0}
                   T == {j \in items : /\ lines[j].indent = 0 /\ lines[j].key = section
                                       /\ \A e \in ends : j < e}
        <4>1. s = Nearest(T) /\ T \in SUBSET (1..N)
          BY DEF LastOf
        <4> HIDE DEF s, T
        <4>2. s \in T
          BY <1>3, <1>14, <4>1, NearestIs
        <4> QED
          BY <4>2 DEF T
      <3> QED
        BY <3>2
    <2>2. i = Nearest(K)
      <3> DEFINE items == {j \in s+1..N : lines[j].kind = "item"}
                 ends == {j \in items : lines[j].indent < 1}
                 T == {j \in items : /\ lines[j].indent = 1 /\ lines[j].key = key
                                     /\ \A e \in ends : j < e}
      <3>1. i = Nearest(T)
        BY DEF LastOf
      <3> HIDE DEF s
      <3>2. s \in 1..N /\ lines[s].kind = "item"
        BY <1>3, <1>9, <1>10, <1>14
      <3>3. ASSUME NEW j \in K PROVE j \in T
        <4>1. j \in 1..N /\ lines[j].kind = "item" /\ lines[j].key = key /\ Owner(lines, j) = s
          OBVIOUS
        <4>2. s \in 0..j-1 /\ s \in ItemsAbove(lines, j) /\ lines[s].indent = lines[j].indent - 1
              /\ \A h \in ItemsAbove(lines, j) : lines[h].indent < lines[j].indent => h <= s
          BY <1>5, <1>14, <4>1
        <4>3. lines[j].indent = 1 /\ j \in s+1..N
          BY <1>4, <2>1, <3>2, <4>1, <4>2
        <4>4. ASSUME NEW e \in ends, ~(j < e) PROVE FALSE
          <5>1. e \in s+1..N /\ lines[e].kind = "item" /\ lines[e].indent < 1
            OBVIOUS
          <5>2. e # j /\ e \in 1..j-1
            BY <3>2, <4>1, <4>3, <4>4, <5>1
          <5>3. e \in ItemsAbove(lines, j)
            BY <5>1, <5>2 DEF ItemsAbove
          <5>4. e <= s
            BY <4>2, <4>3, <5>1, <5>3
          <5> QED
            BY <3>2, <5>1, <5>4
        <4> QED
          BY <4>1, <4>3, <4>4
      <3>4. ASSUME NEW j \in T PROVE j \in K
        <4>1. j \in s+1..N /\ lines[j].kind = "item" /\ lines[j].indent = 1 /\ lines[j].key = key
              /\ \A e \in ends : j < e
          OBVIOUS
        <4>2. j \in 1..N /\ s \in 1..j-1
          BY <3>2, <4>1
        <4>3. s \in ItemsAbove(lines, j) /\ lines[s].indent < lines[j].indent
          BY <2>1, <3>2, <4>1, <4>2 DEF ItemsAbove
        <4> DEFINE o == Owner(lines, j)
        <4>4. o \in 0..j-1 /\ s <= o
              /\ (o # 0 => o \in ItemsAbove(lines, j) /\ lines[o].indent = lines[j].indent - 1)
          BY <1>5, <4>1, <4>2, <4>3
        <4> HIDE DEF o
        <4>5. o = s
          <5>1. ASSUME o # s PROVE FALSE
            <6>1. o \in s+1..N /\ o < j /\ o # 0
              BY <3>2, <4>2, <4>4, <5>1
            <6>2. lines[o].kind = "item" /\ lines[o].indent = 0
              BY <4>1, <4>4, <6>1 DEF ItemsAbove
            <6>3. o \in ends
              BY <6>1, <6>2
            <6>4. j < o
              BY <4>1, <6>3
            <6> QED
              BY <4>2, <6>1, <6>4
          <5> QED
            BY <5>1
        <4> QED
          BY <4>1, <4>2, <4>5 DEF o
      <3>5. K = T
        <4> HIDE DEF K, T
        <4> QED
          BY <3>3, <3>4
      <3> QED
        BY <3>1, <3>5
    <2> HIDE DEF s, i
    <2>3. K \in SUBSET (1..N)
      OBVIOUS
    <2>4. find_child(tree, P[s], key) = P[i]
      <3>1. \A c \in 1..N : c \in K <=> lines[c].kind = "item" /\ lines[c].key = key
                                        /\ Owner(lines, c) = s
        OBVIOUS
      <3> HIDE DEF K
      <3> QED
        BY <1>1, <1>2, <1>9, <1>10, <2>2, <2>3, <3>1, FindsLast
    <2>5. get(tree, <<section, key>>) = P[i]
      BY <1>11, <1>12, <1>14, <2>4
    <2>6. get_str(tree, <<section, key>>) = IF i = 0 THEN "" ELSE lines[i].val
      <3>1. CASE i = 0
        BY <1>11, <2>5, <3>1 DEF get_str
      <3>2. CASE i # 0
        <4>1. i \in K
          <5> HIDE DEF K
          <5> QED
            BY <1>3, <2>2, <2>3, <3>2, NearestIs
        <4>2. i \in 1..Len(lines) /\ lines[i].kind = "item" /\ lines[i] # Blank
          BY <4>1 DEF Blank
        <4>3. P[i] \in 1..Len(tree) /\ tree[P[i]].val = lines[i].val
          BY <1>1, <1>2, <4>2, NodeOfLine
        <4>4. P[i] # 0
          BY <4>3
        <4>5. get(tree, <<section, key>>) # 0
          BY <2>5, <4>4
        <4>6. get_str(tree, <<section, key>>) = tree[get(tree, <<section, key>>)].val
          BY <4>5 DEF get_str
        <4> QED
          BY <2>5, <3>2, <4>3, <4>6
      <3> QED
        BY <3>1, <3>2
    <2> QED
      BY <1>14, <2>6 DEF GetsTheLast, tree, s, i
  <1> QED
    BY <1>13, <1>14

-----------------------------------------------------------------------------
(* The tree that load builds is the one the indents of the file say         *)
(* (config.cpp:21-141), save writes a file that loads to that tree          *)
(* (:143-187), and get finds the last section and key of a name (:189-225), *)
(* for files of any length.                                                 *)
THEOREM ConfigIsRight == Spec => []ConfigMeansItsText
  <1>1. ConfigMeansItsText
    <2> SUFFICES ASSUME NEW lines \in Samples
                 PROVE  /\ LoadsByIndent(lines)
                        /\ SurvivesSaving(lines)
                        /\ load(lines) # NoConfig /\ StartsFlush(lines) =>
                              \A section, key \in SampleKeys : GetsTheLast(lines, section, key)
      BY DEF ConfigMeansItsText
    <2>1. lines \in Seq(Lines) /\ SampleKeys \subseteq Keys
      BY LifecycleAssumption
    <2>2. LoadsByIndent(lines) /\ SurvivesSaving(lines)
      BY <2>1, LoadsRight, SurvivesRight
    <2>3. ASSUME load(lines) # NoConfig, StartsFlush(lines),
                 NEW section \in SampleKeys, NEW key \in SampleKeys
          PROVE  GetsTheLast(lines, section, key)
      BY <2>1, <2>3, GetsRight
    <2> QED
      BY <2>2, <2>3
  <1> QED
    BY <1>1, PTL
=============================================================================
