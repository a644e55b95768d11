----------------------------- MODULE MCProtocol -----------------------------
(* Three validators, no symmetry: the run checks liveness. *)
EXTENDS Protocol
=============================================================================
