------------------------------- MODULE Buffer -------------------------------
(***************************************************************************)
(* The bookkeeping of class Buffer (src/util/bytes.h, bytes.cpp): a block  *)
(* of total bytes whose data starts at offset off (data_ - buf) and is     *)
(* size bytes long; what is behind the data is the space to append to.     *)
(***************************************************************************)
EXTENDS Integers

CONSTANTS INIT_BUFFER_SIZE,   \* 8: what a link starts with
          SmallBuffer,        \* 8 KB: the size after the first growth
          BigBuffer,          \* 512 KB: from here on sizes double
          LengthRoom          \* 16: room append_record asks for the length line

ASSUME BufferAssumption ==
    /\ INIT_BUFFER_SIZE \in Nat \ {0}
    /\ SmallBuffer \in Nat /\ INIT_BUFFER_SIZE < SmallBuffer
    /\ BigBuffer \in Nat
    /\ LengthRoom \in Nat \ {0}

Buffers == [total : Nat, off : Nat, size : Nat]

NewBuffer == [total |-> INIT_BUFFER_SIZE, off |-> 0, size |-> 0]

space(b) == b.total - b.off - b.size

incr(b, n) == [b EXCEPT !.size = @ + n]

decr(b, n) == [total |-> b.total, off |-> b.off + n, size |-> b.size - n]

(* nice moves the data to the start of the block, by a memcpy, when it      *)
(* starts in the second half.                                               *)
Moves(b) == b.off > b.total \div 2

(* Mutant of nice: an empty buffer does not start over.                     *)
nice_if_any(b) == IF Moves(b) /\ b.size > 0 THEN [b EXCEPT !.off = 0] ELSE b

nice(b) == IF Moves(b) THEN [b EXCEPT !.off = 0] ELSE b

grow(b) == [b EXCEPT !.total =
               IF @ < SmallBuffer THEN SmallBuffer
               ELSE IF @ < BigBuffer THEN 8 * @
               ELSE 2 * @]
=============================================================================
