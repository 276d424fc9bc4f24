---------------------------- MODULE MCPacketFlow ----------------------------
(* Instances of PacketFlow for TLC.                                        *)
EXTENDS PacketFlow
=============================================================================
