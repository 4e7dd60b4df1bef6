------------------------------- MODULE MCGtrs -------------------------------
\* Gtrs for TLC: transactions are interchangeable.
EXTENDS Gtrs, TLC

Symmetry == Permutations(Trx)
=============================================================================
