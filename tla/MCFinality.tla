----------------------------- MODULE MCFinality -----------------------------
(* Three validators and two branches; all are alike but for their names. *)
EXTENDS Finality

Symmetry == Permutations(Validator) \cup Permutations(Data)
=============================================================================
