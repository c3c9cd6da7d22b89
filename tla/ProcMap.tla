------------------------------ MODULE ProcMap ------------------------------
(***************************************************************************)
(* The command table: what src/serv.cpp and the constructor of             *)
(* NetworkServer register with ProcMap (src/net/proc.cpp), and the thread  *)
(* NetworkServer::proc hands a command to for the flags it has there.      *)
(* The table is complete before the first request and constant after.      *)
(***************************************************************************)
EXTENDS TLC

(* The letters each command is registered with.                             *)
BuiltIn == [c \in {"ping", "info"} |-> {"r"}]

Registered ==
    [c \in {"info", "version"} |-> {"r"}]
    @@ [c \in {"get", "exists", "multi_exists", "multi_get",
               "qsize", "qfront", "qback", "dbsize"} |-> {"r", "t"}]
    @@ [c \in {"set", "del", "multi_set", "multi_del",
               "qpush", "qpush_front", "qpush_back",
               "qpop", "qpop_front", "qpop_back"} |-> {"w", "t"}]

(* A letter may set several flags: w comes with t.                          *)
FlagsOf(letter) == CASE letter = "r" -> {"read"}
                     [] letter = "w" -> {"write", "thread"}
                     [] letter = "b" -> {"backend"}
                     [] letter = "t" -> {"thread"}

set_proc(sflags) == UNION {FlagsOf(letter) : letter \in sflags}

(* A registration replaces an earlier one of the same name.                 *)
proc_map == [c \in DOMAIN (Registered @@ BuiltIn) |-> set_proc((Registered @@ BuiltIn)[c])]

(* The flags of the command of a request; an unknown one has none and is    *)
(* answered client_error on the spot.                                       *)
CommandFlags == {proc_map[c] : c \in DOMAIN proc_map}

ThreadOf(flags) ==
    CASE "thread" \notin flags -> "main"
      [] "thread" \in flags /\ "write" \in flags -> "writer"
      [] OTHER -> "reader"

(* What the requests given to a pool can have as flags.                     *)
FlagsOn(thread) == {flags \in CommandFlags : ThreadOf(flags) = thread}
=============================================================================
