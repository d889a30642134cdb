--------------------------- MODULE MCSearchTrace ---------------------------
(* SearchTrace for TLC: the sessions of a host are alike, and so are the   *)
(* processes.                                                              *)
EXTENDS SearchTrace, TLC

Symmetry ==
    Permutations(Claude) \cup Permutations(Cursor) \cup Permutations(Pids)
=============================================================================
