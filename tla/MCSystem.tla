------------------------------- MODULE MCSystem ------------------------------
(* A small instance of System for TLC. *)
EXTENDS System

OnePlan == {<<[scenario |-> "API1", turn |-> 2]>>}

=============================================================================
