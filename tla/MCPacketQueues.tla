--------------------------- MODULE MCPacketQueues ---------------------------
(***************************************************************************)
(* Instance of PacketQueues for TLC: one request that comes again and      *)
(* again, received frames with and without data, and a request of the      *)
(* stack's own; a buffer of four and counters of three bits, which turn    *)
(* over with every second turn of the buffer.                              *)
(***************************************************************************)
EXTENDS PacketQueues
=============================================================================
