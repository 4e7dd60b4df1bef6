------------------------------- MODULE MCMvcc -------------------------------
(***************************************************************************)
(* Mvcc for TLC: two leaves in each tree.  Row 1 and the delete marks of   *)
(* row 2 are in the first leaf of the Bonsai tree, row 2 itself and row 3  *)
(* in the second, so that a delete mark and its row can be parted; row 3   *)
(* is in the storage tree, in its second leaf, from the start.             *)
(***************************************************************************)
EXTENDS Mvcc

MCBonsaiLeaf ==
  [r \in Rows, del \in BOOLEAN |-> IF r = 1 \/ (r = 2 /\ del) THEN 1 ELSE 2]
MCStorageLeaf == [r \in Rows |-> IF r = 1 THEN 1 ELSE 2]
=============================================================================
