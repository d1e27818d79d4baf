----------------------------- MODULE MCPortfolio -----------------------------
EXTENDS Portfolio, TLC

\* Entries are told apart by nothing but their names.
Symmetric == Permutations(Entry)
=============================================================================
