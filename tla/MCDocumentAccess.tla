-------------------------- MODULE MCDocumentAccess --------------------------
(***************************************************************************)
(* DocumentAccess for TLC: alice owns the documents, root is an            *)
(* administrator, bob is neither.  Callers are interchangeable.            *)
(***************************************************************************)
EXTENDS DocumentAccess, TLC

CONSTANTS alice, bob, root

MCOwnerOf == [d \in Documents |-> alice]

Proper(user) == [type |-> "access", intact |-> TRUE, user |-> user]

MCCredentials ==
  {Proper(user) : user \in Users}
  \cup {[Proper(alice) EXCEPT !.intact = FALSE], [Proper(alice) EXCEPT !.type = "refresh"]}

Symmetry == Permutations(Callers)
=============================================================================
