---------------------------- MODULE MCMrcpServer ----------------------------
(* Three packets of one sample around the wrap of the sequence numbers, one  *)
(* with an odd payload, one cut in its CSRC list, and an empty datagram.     *)
EXTENDS MrcpServer

Packet(p, size, csrc) == [pos |-> p, size |-> size, version |-> 2, csrc |-> csrc]

MCDatagrams == {Packet(0, 14, 0), Packet(1, 18, 1), Packet(2, 16, 0),
                Packet(3, 13, 0), Packet(4, 14, 1), Packet(5, 0, 0)}
=============================================================================
