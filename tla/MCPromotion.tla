-------------------------- MODULE MCPromotion --------------------------
(* Instances of Promotion for TLC; the actors are interchangeable. *)
EXTENDS Promotion, TLC

Symmetry == Permutations(Actors)

=============================================================================
