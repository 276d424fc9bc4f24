------------------------------ MODULE MCDeadPeer ------------------------------
(* Instances of DeadPeer for TLC.                                          *)
EXTENDS DeadPeer
=============================================================================
