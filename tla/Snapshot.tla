------------------------------ MODULE Snapshot ------------------------------
(***************************************************************************)
(* What the transaction core promises to the transactions of the server:   *)
(* commits become visible one after another and stay visible, and the data *)
(* a transaction reads is one instant of that history, unchanged until the *)
(* transaction gives it up.                                                *)
(***************************************************************************)
CONSTANT Trx

VARIABLES
  published,   \* the committed transactions a new reader sees
  snapshot     \* snapshot[t]: {what t sees}, or {} if t has no view

Init == published = {} /\ snapshot = [t \in Trx |-> {}]

\* t opens a view on what is published now.
Take(t) ==
  /\ snapshot[t] = {}
  /\ snapshot' = [snapshot EXCEPT ![t] = {published}]
  /\ UNCHANGED published

\* Commits become visible; the transactions of D end or give up their view.
Publish(C, D) ==
  /\ published' = published \cup C
  /\ snapshot' = [t \in Trx |-> IF t \in D THEN {} ELSE snapshot[t]]

Next ==
  \/ \E t \in Trx : Take(t)
  \/ \E C, D \in SUBSET Trx : Publish(C, D)

Spec == Init /\ [][Next]_<<published, snapshot>>
=============================================================================
