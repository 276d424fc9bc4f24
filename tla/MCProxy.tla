------------------------------- MODULE MCProxy -------------------------------
(* Instances of Proxy for TLC; tunnels, users and refreshers are         *)
(* interchangeable.                                                        *)
EXTENDS Proxy, TLC

Symmetry == Permutations(Tunnels) \cup Permutations(Users) \cup Permutations(Refreshers)
=============================================================================
