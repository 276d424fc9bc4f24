------------------------------ MODULE MCManager ------------------------------
(* Instances of Manager for TLC; the callers are interchangeable.          *)
EXTENDS Manager, TLC

CallerSymmetry == Permutations(Callers)
=============================================================================
