------------------------------ MODULE MCLedger ------------------------------
(* Instances of Ledger for TLC.                                              *)
EXTENDS Ledger, TLC

Interchangeable == Permutations(Call) \cup Permutations(Identity)
=============================================================================
