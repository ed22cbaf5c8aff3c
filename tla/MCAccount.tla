------------------------------ MODULE MCAccount ------------------------------
(* Account on a small instance.                                              *)
EXTENDS Account, TLC

Symmetry == Permutations(Code) \cup Permutations(Verifier)
=============================================================================
