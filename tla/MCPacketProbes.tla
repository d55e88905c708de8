--------------------------- MODULE MCPacketProbes ---------------------------
(***************************************************************************)
(* An instance of PacketProbes for TLC.  With 8 sequence numbers, 7 makes  *)
(* the first sequence number of the stream 0 and 5 makes it wrap.          *)
(***************************************************************************)
EXTENDS PacketProbes

TwoHandshakes == {<<5, 7>>, <<7, 5>>}
=============================================================================
