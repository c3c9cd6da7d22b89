------------------------------ MODULE MapSpec ------------------------------
(***************************************************************************)
(* What the key-value commands promise about the stored data: a map from   *)
(* keys to values, and clients that ask for updates of several keys.  An   *)
(* update is applied as a whole, in one step, between its call and its     *)
(* answer, or refused as a whole.  A restart forgets the calls, applied or *)
(* not, and nothing of the map.  KvService is shown to implement it.       *)
(***************************************************************************)
EXTENDS Integers, Sequences

CONSTANTS Keys,      \* the keys a client can name
          Values,    \* the values it can store
          NotFound,  \* "no value": an absent key, or a deletion in an update
          Clients,   \* who calls
          Updates    \* the updates: sequences of records [key, val]

VARIABLES kv,        \* the map: a value or NotFound for every key
          call       \* the call of each client

vars == <<kv, call>>

NoCall == [state |-> "none"]
Asked(u) == [state |-> "asked", update |-> u]
Answered(u, v) == [state |-> "answered", update |-> u, val |-> v]

(* Of several changes of one key in an update the last one holds.          *)
ValueAfter(u, old, k) ==
    LET ofKey == {i \in DOMAIN u : u[i].key = k}
    IN  IF ofKey = {} THEN old
        ELSE u[CHOOSE i \in ofKey : \A j \in ofKey : j <= i].val

Init == /\ kv = [k \in Keys |-> NotFound]
        /\ call = [c \in Clients |-> NoCall]

Ask(c, u) ==
    /\ call[c] = NoCall
    /\ call' = [call EXCEPT ![c] = Asked(u)]
    /\ UNCHANGED kv

(* The answer of an applied update is the number of its changes ...        *)
Apply(c) ==
    LET u == call[c].update
    IN  /\ call[c].state = "asked"
        /\ kv' = [k \in Keys |-> ValueAfter(u, kv[k], k)]
        /\ call' = [call EXCEPT ![c] = Answered(u, Len(u))]

(* ... and otherwise 0 (an empty key) or -1 (the storage engine failed).   *)
Refuse(c) ==
    /\ call[c].state = "asked"
    /\ \E v \in {0, -1} : call' = [call EXCEPT ![c] = Answered(call[c].update, v)]
    /\ UNCHANGED kv

Finish(c) ==
    /\ call[c].state = "answered"
    /\ call' = [call EXCEPT ![c] = NoCall]
    /\ UNCHANGED kv

Restart ==
    /\ call' = [c \in Clients |-> NoCall]
    /\ UNCHANGED kv

Next == \/ \E c \in Clients :
              \/ \E u \in Updates : Ask(c, u)
              \/ Apply(c) \/ Refuse(c) \/ Finish(c)
        \/ Restart

Spec == Init /\ [][Next]_vars
=============================================================================
