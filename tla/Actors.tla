------------------------------- MODULE Actors -------------------------------
(***************************************************************************)
(* The actor of a request and what it may do to a document.                *)
(***************************************************************************)
EXTENDS Dependencies

CONSTANTS Users,
          Admins,     \* the users whose role is admin
          OwnerOf     \* the user who uploads each document

ASSUME ActorsAssumption ==
  /\ Admins \subseteq Users
  /\ OwnerOf \in [Documents -> Users]

(* authorizeDocument, and the choice between the listing statements.       *)
May(user, d) == user \in Admins \/ OwnerOf[d] = user
=============================================================================
