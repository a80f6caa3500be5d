------------------------- MODULE MCRefreshSessions --------------------------
(* RefreshSessions for TLC: tokens and requests are interchangeable.       *)
EXTENDS RefreshSessions, TLC

Symmetry == Permutations(Tokens) \cup Permutations(Requests)
=============================================================================
