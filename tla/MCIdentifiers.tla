---------------------------- MODULE MCIdentifiers ----------------------------
(* Two validators: a justification of two messages has two orders. *)
EXTENDS Identifiers
=============================================================================
