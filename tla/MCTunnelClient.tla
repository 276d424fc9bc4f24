--------------------------- MODULE MCTunnelClient ---------------------------
(* Instances of TunnelClient for TLC; the .cfg files give the constants.   *)
(* Calls of Disconnect are interchangeable.                                *)
EXTENDS TunnelClient, TLC

StopperSymmetry == Permutations(Stoppers)
=============================================================================
