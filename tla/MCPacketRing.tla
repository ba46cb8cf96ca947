---------------------------- MODULE MCPacketRing ----------------------------
(* PacketRing for TLC. *)
EXTENDS PacketRing
=============================================================================
