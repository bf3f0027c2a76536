---------------------------- MODULE MCExecution ----------------------------
(* Instances of Execution for TLC.  Tickets are interchangeable, which the  *)
(* runs without liveness properties use.                                    *)
EXTENDS Execution, TLC

Symmetry == Permutations(Tickets)

ServiceFaults == {"commit", "crash", "link", "db"}
AllPaperFaults == {"commit", "crash", "db"}

=============================================================================
