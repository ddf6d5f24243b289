-------------------------- MODULE MCTokenRefresh --------------------------
(* Instances of TokenRefresh for TLC.                                        *)
EXTENDS TokenRefresh, TLC

Interchangeable == Permutations(Caller) \cup Permutations(Identity) \cup Permutations(Pair)
=============================================================================
