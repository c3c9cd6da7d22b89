------------------------------ MODULE Fdevents ------------------------------
(***************************************************************************)
(* The event registry of src/net/fde_epoll.cpp: for every file descriptor  *)
(* the flags Fdevents believes to be subscribed (Fdevent::s_flags), the    *)
(* object they are for (Fdevent::data.ptr), and what the epoll instance of *)
(* the kernel has registered.  A registry is a record of the three; every  *)
(* operation maps a registry to the next one.                              *)
(***************************************************************************)
EXTENDS Naturals

CONSTANTS Fds,     \* the file descriptors of connections
          Conns,   \* the objects that own one
          NoConn   \* data.ptr of a descriptor that was never used

Flags == {"in", "out"}

Registries == [flags : [Fds -> SUBSET Flags],
               data : [Fds -> Conns \cup {NoConn}],
               kernel : [Fds -> SUBSET Flags]]

NoEvents == [flags |-> [f \in Fds |-> {}],
             data |-> [f \in Fds |-> NoConn],
             kernel |-> [f \in Fds |-> {}]]

(* epoll_ctl: ADD fails (EEXIST) on a registered descriptor, MOD and DEL    *)
(* fail (ENOENT) on one that is not.                                        *)
ctl_add(x, f, flags) ==
    IF x.kernel[f] = {} THEN [x EXCEPT !.kernel[f] = flags] ELSE x
ctl_mod(x, f, flags) ==
    IF x.kernel[f] # {} THEN [x EXCEPT !.kernel[f] = flags] ELSE x

(* Fdevents::set, for one flag: nothing happens if it is subscribed already.*)
fde_set(x, f, flag, c) ==
    IF flag \in x.flags[f] THEN x
    ELSE LET flags == x.flags[f] \cup {flag}
             y == [x EXCEPT !.flags[f] = flags, !.data[f] = c]
         IN  IF x.flags[f] = {} THEN ctl_add(y, f, flags) ELSE ctl_mod(y, f, flags)

(* Mutant: the flags of a deleted descriptor are kept.                      *)
fde_del_keeps_flags(x, f) == [x EXCEPT !.kernel[f] = {}]

(* Fdevents::del: if the kernel refuses, the flags stay as they are.        *)
fde_del(x, f) ==
    IF x.kernel[f] = {} THEN x
    ELSE [x EXCEPT !.kernel[f] = {}, !.flags[f] = {}]

(* Mutant: nothing is cleared.                                              *)
fde_clr_forgotten(x, f, flag) == x

(* Fdevents::clr, for one flag.                                             *)
fde_clr(x, f, flag) ==
    IF flag \notin x.flags[f] THEN x
    ELSE LET flags == x.flags[f] \ {flag}
         IN  ctl_mod([x EXCEPT !.flags[f] = flags], f, flags)

(* close(2): the kernel forgets the descriptor, Fdevents is not told.       *)
fde_closed(x, f) == [x EXCEPT !.kernel[f] = {}]
=============================================================================
