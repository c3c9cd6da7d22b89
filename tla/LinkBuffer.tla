----------------------------- MODULE LinkBuffer -----------------------------
(***************************************************************************)
(* What happens to the two buffers of a link (src/net/link.cpp) while the  *)
(* server reads a request, answers it and writes, without the bytes: how   *)
(* many arrive, how long the requests and the records of the answers are,  *)
(* and how much the socket takes is left open.  Link fills in the bytes    *)
(* and is shown to implement this module, whose invariants are proved in   *)
(* LinkProofs for buffers of all sizes.                                    *)
(***************************************************************************)
EXTENDS Buffer

VARIABLES input,   \* Link::input
          output,  \* Link::output
          pc       \* "read": waiting for input; "recv": input to be parsed;
                   \* "send": an answer is being appended; "write": a worker
                   \* writes it; "result": the main thread has the result;
                   \* "dropped": the link is to be deleted

bufVars == <<input, output, pc>>

BufInit ==
    /\ input = NewBuffer
    /\ output = NewBuffer
    /\ pc = "read"

-----------------------------------------------------------------------------
(* Link::read: grows the initial buffer, makes room, and reads some bytes.  *)
ReadyToRead(b) == nice(IF b.total = INIT_BUFFER_SIZE THEN grow(b) ELSE b)

Read(n) ==
    /\ pc = "read"
    /\ n \in 1..space(ReadyToRead(input))
    /\ input' = incr(ReadyToRead(input), n)
    /\ pc' = "recv"
    /\ UNCHANGED output

(* Link::recv finds a whole packet of n bytes.                              *)
RecvPacket(n) ==
    /\ pc = "recv"
    /\ n \in 1..input.size
    /\ input' = decr(input, n)
    /\ pc' = "send"
    /\ UNCHANGED output

(* ... or none: if the buffer is full it leaves room for the next read.     *)
MadeRoom(b) ==
    IF space(b) # 0 THEN b
    ELSE IF space(nice(b)) # 0 THEN nice(b) ELSE grow(nice(b))

RecvNotReady ==
    /\ pc = "recv"
    /\ input' = MadeRoom(input)
    /\ pc' = "read"
    /\ UNCHANGED output

(* ... or something else than a packet.                                     *)
RecvBad ==
    /\ pc = "recv"
    /\ pc' = "dropped"
    /\ UNCHANGED <<input, output>>

-----------------------------------------------------------------------------
(* Buffer::append_record(s) asks for room for LengthRoom + s.size() + 1     *)
(* bytes, append('\n') for one, and both grow the buffer until there is.    *)
(* The length line takes fewer than LengthRoom bytes.                       *)
Grow(need) ==
    /\ pc = "send"
    /\ need > space(output)
    /\ output' = grow(output)
    /\ UNCHANGED <<input, pc>>

(* Mutant of AppendRoom: it does not look for room.                             *)
AppendRoom_unchecked(need, n) ==
    /\ pc = "send"
    /\ n <= need
    /\ output' = incr(output, n)
    /\ UNCHANGED <<input, pc>>

AppendRoom(need, n) ==
    /\ pc = "send"
    /\ need <= space(output)
    /\ n <= need
    /\ output' = incr(output, n)
    /\ UNCHANGED <<input, pc>>

(* A worker writes the answers of the reading commands itself.              *)
Sent ==
    /\ pc = "send"
    /\ pc' \in {"write", "result"}
    /\ UNCHANGED <<input, output>>

(* Link::write: the socket takes n bytes.                                   *)
AfterWrite(b, n) == IF b.size = 0 THEN b ELSE nice(decr(b, n))

WorkerWrite(n) ==
    /\ pc = "write"
    /\ n \in 0..output.size
    /\ output' = AfterWrite(output, n)
    /\ pc' = "result"
    /\ UNCHANGED input

(* proc_result writes, and has the rest of the input parsed before more is  *)
(* read.                                                                    *)
Result(n) ==
    /\ pc = "result"
    /\ n \in 0..output.size
    /\ output' = AfterWrite(output, n)
    /\ pc' = IF input.size = 0 THEN "read" ELSE "recv"
    /\ UNCHANGED input

BufNext == \/ \E n \in Nat \ {0} : Read(n) \/ RecvPacket(n)
           \/ RecvNotReady \/ RecvBad
           \/ \E need, n \in Nat : Grow(need) \/ AppendRoom(need, n)
           \/ Sent
           \/ \E n \in Nat : WorkerWrite(n) \/ Result(n)

BufSpec == BufInit /\ [][BufNext]_bufVars

-----------------------------------------------------------------------------
(* Offsets and sizes are never negative.                                    *)
BufTypeOK ==
    /\ input \in Buffers
    /\ output \in Buffers
    /\ pc \in {"read", "recv", "send", "write", "result", "dropped"}

(* The data of a buffer never reaches beyond its block, whatever is read,   *)
(* appended, consumed, moved and grown; so the memcpy of nice, from the     *)
(* second half of the block to its start, never overlaps itself.            *)
Within(b) ==
    /\ space(b) >= 0
    /\ Moves(b) => b.size <= b.off

BuffersWithin == Within(input) /\ Within(output)

(* Link::read always finds room.  Without room it would not call the socket *)
(* and return 0, which proc_request takes for the end of the connection.    *)
ReadHasRoom == pc = "read" => space(ReadyToRead(input)) > 0
=============================================================================
