------------------------------ MODULE MCDelivery ------------------------------
(* Delivery on small instances.  Record ids are interchangeable, and so    *)
(* are flush processes.                                                    *)
EXTENDS Delivery, TLC

Symmetry == Permutations(RecordIds) \cup Permutations(Flushes)
=============================================================================
