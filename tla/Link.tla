-------------------------------- MODULE Link --------------------------------
(***************************************************************************)
(* One connection, byte by byte: the stream of the client reaches          *)
(* Link::input in pieces (read), requests are parsed out of it (recv),     *)
(* each is answered through Link::output (send) and the answers leave in   *)
(* pieces (write).  LinkBuffer says what happens to the two buffers, this  *)
(* module which bytes are in them.  The list of strings of an answer       *)
(* depends on the command; the request itself stands for it.               *)
(***************************************************************************)
EXTENDS LinkBuffer, Framing

CONSTANTS PacketLists,   \* bound: lists of packets a client sends with Link::send
          RawStreams     \* bound: other streams of bytes a client sends

(* A packet has a string at least, the command.                             *)
ASSUME StreamAssumption ==
    /\ PacketLists \subseteq Seq(Seq(Seq(Bytes)) \ {<<>>})
    /\ RawStreams \subseteq Seq(Bytes)

VARIABLES sent,      \* history: the packets sent, <<>> for a raw stream
          stream,    \* history: the bytes sent
          wire,      \* the bytes not read yet
          inbytes,   \* the bytes in input
          got,       \* the requests parsed
          sending,   \* the pieces of the answer still to be appended
          outbytes,  \* the bytes in output
          replied    \* the bytes the client has got

byteVars == <<sent, stream, wire, inbytes, got, sending, outbytes, replied>>
vars == <<bufVars, byteVars>>

Init ==
    /\ BufInit
    /\ \/ sent \in PacketLists /\ stream = Packets(sent)
       \/ sent = <<>> /\ stream \in RawStreams
    /\ wire = stream
    /\ inbytes = <<>> /\ got = <<>>
    /\ sending = <<>> /\ outbytes = <<>> /\ replied = <<>>

-----------------------------------------------------------------------------
ReadBytes ==
    \E n \in 1..Len(wire) :
       /\ Read(n)
       /\ inbytes' = inbytes \o SubSeq(wire, 1, n)
       /\ wire' = SubSeq(wire, n + 1, Len(wire))
       /\ UNCHANGED <<sent, stream, got, sending, outbytes, replied>>

(* append_record for every string, append('\n') at the end.                 *)
Chunk(need, bytes) == [need |-> need, bytes |-> bytes]

(* Mutant of Chunks: no line end after the last record.                     *)
Chunks_unended(p) ==
    [i \in 1..Len(p) |-> Chunk(LengthRoom + Len(p[i]) + 1, Record(p[i]))]

Chunks(p) ==
    [i \in 1..Len(p) |-> Chunk(LengthRoom + Len(p[i]) + 1, Record(p[i]))]
    \o <<Chunk(1, <<LF>>)>>

RecvRequest ==
    /\ pc = "recv"
    /\ LET r == Parse(inbytes)
       IN  /\ r.status = "packet"
           /\ RecvPacket(r.used)
           /\ inbytes' = SubSeq(inbytes, r.used + 1, Len(inbytes))
           /\ got' = Append(got, r.packet)
           /\ sending' = Chunks(r.packet)
    /\ UNCHANGED <<sent, stream, wire, outbytes, replied>>

RecvPart ==
    /\ pc = "recv"
    /\ Parse(inbytes).status = "more"
    /\ RecvNotReady
    /\ UNCHANGED byteVars

RecvMalformed ==
    /\ pc = "recv"
    /\ Parse(inbytes).status = "bad"
    /\ RecvBad
    /\ UNCHANGED byteVars

SendGrow ==
    /\ sending # <<>>
    /\ Grow(Head(sending).need)
    /\ UNCHANGED byteVars

SendChunk ==
    /\ sending # <<>>
    /\ AppendRoom(Head(sending).need, Len(Head(sending).bytes))
    /\ outbytes' = outbytes \o Head(sending).bytes
    /\ sending' = Tail(sending)
    /\ UNCHANGED <<sent, stream, wire, inbytes, got, replied>>

SendDone ==
    /\ sending = <<>>
    /\ Sent
    /\ UNCHANGED byteVars

WriteBytes ==
    \E n \in 0..Len(outbytes) :
       /\ WorkerWrite(n) \/ Result(n)
       /\ replied' = replied \o SubSeq(outbytes, 1, n)
       /\ outbytes' = SubSeq(outbytes, n + 1, Len(outbytes))
       /\ UNCHANGED <<sent, stream, wire, inbytes, got, sending>>

Next == \/ ReadBytes
        \/ RecvRequest \/ RecvPart \/ RecvMalformed
        \/ SendGrow \/ SendChunk \/ SendDone
        \/ WriteBytes

Spec == Init /\ [][Next]_vars

-----------------------------------------------------------------------------
(* However the stream is cut into pieces by the network and by the room in  *)
(* the buffer, the requests parsed are those of the stream as a whole; the  *)
(* link is dropped only for a stream that is malformed, after its last good *)
(* request; and no request that has arrived lies undetected in the buffer   *)
(* while the server waits for more input.                                   *)
CutsDoNotMatter ==
    LET whole == Decoded(stream)
        rest == Decoded(inbytes \o wire)
    IN  /\ pc # "dropped" =>
             /\ whole.packets = got \o rest.packets
             /\ whole.status = rest.status
        /\ pc = "dropped" => whole = [status |-> "bad", packets |-> got]
        /\ pc = "read" /\ wire = <<>> => whole = [status |-> "more", packets |-> got]

(* What is sent with Link::send is received with Link::recv: strings of any *)
(* bytes, line ends included, empty ones too, several packets in a row, as  *)
(* long as no packet exceeds MAX_PACKET_SIZE.                               *)
SentIsReceived ==
    (sent # <<>> /\ \A i \in DOMAIN sent : Len(Packet(sent[i])) - 1 <= MAX_PACKET_SIZE)
    => /\ pc # "dropped"
       /\ got = SubSeq(sent, 1, Len(got))
       /\ pc = "read" /\ wire = <<>> => got = sent

(* The client finds the answers, in order, in what it has received and what *)
(* is still to be written, whatever part of it each write could send.       *)
AnswersAreWhole ==
    pc \in {"read", "recv", "write", "result"} =>
       Decoded(replied \o outbytes) = [status |-> "more", packets |-> got]
=============================================================================
