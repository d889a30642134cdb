------------------------------- MODULE MCWallet -------------------------------
\* Wallet for TLC: payments and keys are interchangeable.
EXTENDS WalletInvariant, TLC

Symmetry == Permutations(Payments) \cup Permutations(Keys)
=============================================================================
