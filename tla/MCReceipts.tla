------------------------------ MODULE MCReceipts ------------------------------
(* Instances of Receipts for TLC. *)
EXTENDS Receipts

CONSTANTS e1, k1, k2, k3, c1, c2, s1, s2, lunch
=============================================================================
