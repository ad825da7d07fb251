------------------------------- MODULE MCPasswd -------------------------------
(* Instances of Passwd for TLC. *)
EXTENDS Passwd, TLC

Symmetry == Permutations(Handlers)
=============================================================================
