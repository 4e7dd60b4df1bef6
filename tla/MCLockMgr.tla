----------------------------- MODULE MCLockMgr -----------------------------
(***************************************************************************)
(* LockMgr for TLC: transactions and names are interchangeable.            *)
(***************************************************************************)
EXTENDS LockMgr, TLC

Symmetry == Permutations(Tran) \cup Permutations(Name)
=============================================================================
