----------------------------- MODULE MCPayments -----------------------------
(* Instances of Payments for TLC. *)
EXTENDS Payments, TLC

MCSymmetry == Permutations(Payments) \cup Permutations(Requests) \cup Permutations(Receipts)
=============================================================================
