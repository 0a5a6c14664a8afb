-------------------------- MODULE MCCollaboration --------------------------
(* The requests are interchangeable. *)
EXTENDS Collaboration, TLC

Symmetries == Permutations(Requests)
============================================================================
