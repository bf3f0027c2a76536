---------------------------- MODULE MCNotifier ----------------------------
(* An instance of Notifier for TLC. *)
EXTENDS Notifier

=============================================================================
