------------------------------ MODULE Framing ------------------------------
(***************************************************************************)
(* The packets of the protocol: what Link::send (src/net/link.cpp) puts    *)
(* into a buffer for a list of strings, and what the parser of Link::recv  *)
(* makes of the bytes in one.  Bytes are numbers, packets sequences of     *)
(* strings, strings sequences of bytes.                                    *)
(***************************************************************************)
EXTENDS Integers, Sequences

CONSTANTS MaxHead,           \* 19: bytes of a length line, with its '\n'
          MAX_PACKET_SIZE    \* 128 MB: a packet whose records are longer is refused

Bytes == 0..255
LF == 10
CR == 13
Digits == 48..57

-----------------------------------------------------------------------------
(* Sending: "%d\n", the bytes and '\n' for each string, '\n' at the end.    *)

Decimal(n) ==
    LET digits[k \in 0..n] ==
           IF k < 10 THEN <<48 + k>> ELSE digits[k \div 10] \o <<48 + (k % 10)>>
    IN  digits[n]

(* The length of any string that a packet has room for fits a length line.  *)
ASSUME FramingAssumption ==
    /\ MaxHead \in Nat /\ MAX_PACKET_SIZE \in Nat
    /\ \A n \in 0..MAX_PACKET_SIZE : Len(Decimal(n)) < MaxHead

(* Mutant of Record: the line end after the string is left out.             *)
Record_unended(s) == Decimal(Len(s)) \o <<LF>> \o s

Record(s) == Decimal(Len(s)) \o <<LF>> \o s \o <<LF>>

Packet(p) ==
    LET upto[i \in 0..Len(p)] == IF i = 0 THEN <<>> ELSE upto[i-1] \o Record(p[i])
    IN  upto[Len(p)] \o <<LF>>

Packets(ps) ==
    LET upto[i \in 0..Len(ps)] == IF i = 0 THEN <<>> ELSE upto[i-1] \o Packet(ps[i])
    IN  upto[Len(ps)]

-----------------------------------------------------------------------------
(* Receiving.                                                               *)

Least(S) == CHOOSE x \in S : \A y \in S : x <= y

(* The first position from h on that holds no '\n' or '\r' (or the end).    *)
SkipBlank(b, h) == Least({i \in h..Len(b) : b[i] \notin {LF, CR}} \cup {Len(b) + 1})

(* memchr: the position of the first '\n' from h on, or 0.                  *)
NextLF(b, h) == LET at == {i \in h..Len(b) : b[i] = LF}
                IN  IF at = {} THEN 0 ELSE Least(at)

(* atoi of a line that starts with a digit.                                 *)
Atoi(b, h, end) ==
    LET last == Least({i \in h..end : b[i] \notin Digits}) - 1
        upto[i \in (h - 1)..last] == IF i = h - 1 THEN 0 ELSE 10 * upto[i-1] + b[i] - 48
    IN  upto[last]

More == [status |-> "more", packet |-> <<>>, used |-> 0]
Bad  == [status |-> "bad", packet |-> <<>>, used |-> 0]
Whole(used) == [status |-> "packet", packet |-> <<>>, used |-> used]

(* What follows a string at i: the position of the next length line, 0 if   *)
(* that has not arrived yet, -1 if it is no line end.                       *)
StartsLine(b, i) == i <= Len(b) /\ b[i] = LF
StartsCRLine(b, i) == i < Len(b) /\ b[i] = CR /\ b[i+1] = LF

(* Mutant of AfterBody: a lone '\r' at the end of the input is malformed.   *)
AfterBody_hasty(b, i) ==
    IF StartsLine(b, i) THEN i + 1
    ELSE IF StartsCRLine(b, i) THEN i + 2
    ELSE IF i <= Len(b) THEN -1 ELSE 0

AfterBody(b, i) ==
    IF StartsLine(b, i) THEN i + 1
    ELSE IF StartsCRLine(b, i) THEN i + 2
    ELSE IF i < Len(b) THEN -1 ELSE 0

(* The loop of recv over the bytes b: what it makes of the line at h, given *)
(* what it makes of those behind.                                           *)
ParseLine(b, h, from) ==
    LET lf == NextLF(b, h)
        body == lf + 1
        next == body + Atoi(b, h, lf)
        rest == AfterBody(b, next)
    IN  IF lf = 0 THEN More
        ELSE IF lf = h \/ (lf = h + 1 /\ b[h] = CR) THEN Whole(lf)
        ELSE IF b[h] \notin Digits \/ lf - h + 1 > MaxHead THEN Bad
        ELSE IF next > Len(b) + 1 THEN More
        ELSE IF rest = -1 THEN Bad
        ELSE IF rest = 0 THEN More
        ELSE IF rest - 1 > MAX_PACKET_SIZE THEN Bad
        ELSE IF from[rest].status # "packet" THEN from[rest]
        ELSE [from[rest] EXCEPT !.packet = <<SubSeq(b, body, next - 1)>> \o @]

Parse(b) ==
    LET from[h \in 1..(Len(b) + 1)] == ParseLine(b, h, from)
    IN  from[SkipBlank(b, 1)]

(* All packets of a stream, one after the other, and what is behind them.   *)
Decoded(b) ==
    LET from[h \in 1..(Len(b) + 1)] ==
          LET r == Parse(SubSeq(b, h, Len(b)))
          IN  IF r.status # "packet" THEN [status |-> r.status, packets |-> <<>>]
              ELSE [from[h + r.used] EXCEPT !.packets = <<r.packet>> \o @]
    IN  from[1]
=============================================================================
