------------------------------ MODULE MCSessions ------------------------------
(* RefreshSessions on a small instance.                                       *)
EXTENDS RefreshSessions, TLC

Symmetry == Permutations(Session) \cup Permutations(Caller)
=============================================================================
