---------------------------- MODULE MCManagement ----------------------------
(* Instance of Management for TLC: both adapters, rules and directions.     *)
EXTENDS Management


=============================================================================
