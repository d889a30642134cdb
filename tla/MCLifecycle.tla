------------------------------ MODULE MCLifecycle ------------------------------
(* Lifecycle on small instances.  Processes of one kind are interchangeable. *)
EXTENDS LifecycleInvariant, TLC

Symmetry ==
    Permutations(Setups) \cup Permutations(Connects) \cup Permutations(Flushes \ Sandboxed)
        \cup Permutations(Uninstalls) \cup Permutations(Upgrades)
=============================================================================
