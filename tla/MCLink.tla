------------------------------- MODULE MCLink -------------------------------
(* A TLC instance of Link: strings with and without line ends in them, and  *)
(* all short streams over a line end, a carriage return, a digit and a      *)
(* letter.                                                                  *)
EXTENDS Link

Strings == {<<>>, <<LF>>, <<49>>, <<120, CR>>}
SomePackets == UNION {[1..n -> Strings] : n \in 1..2}
MCPacketLists == UNION {[1..n -> SomePackets] : n \in 1..2}
MCRawStreams == UNION {[1..n -> {LF, CR, 49, 120}] : n \in 1..6}
=============================================================================
