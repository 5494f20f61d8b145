--------------------------- MODULE MCPacketFramer ---------------------------
(***************************************************************************)
(* PacketFramer for TLC.                                                   *)
(***************************************************************************)
EXTENDS PacketFramer

=============================================================================
