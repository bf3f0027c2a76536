---------------------------- MODULE MCProposals ----------------------------
(* Instances of Proposals for TLC. *)
EXTENDS Proposals, TLC

AllFaults == {"raise", "crash"}

=============================================================================
