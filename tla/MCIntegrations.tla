----------------------------- MODULE MCIntegrations ------------------------------
(* The commands are interchangeable.                                       *)
EXTENDS Integrations, TLC

Symmetry == Permutations(Processes)
==================================================================================
