------------------------------- MODULE MCAuth -------------------------------
EXTENDS Auth, TLC

\* Operators are told apart by the allowlist.
Symmetry == Permutations(Nonces) \cup Permutations(Handlers)
=============================================================================
