-------------------------------- MODULE MCIpc --------------------------------
(* An instance of Ipc for TLC.                                             *)
EXTENDS Ipc
=============================================================================
