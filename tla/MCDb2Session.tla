---------------------------- MODULE MCDb2Session ----------------------------
(* Db2Session for TLC: interchangeable workers. *)
EXTENDS Db2Session, TLC

Symmetry == Permutations(Workers)
=============================================================================
