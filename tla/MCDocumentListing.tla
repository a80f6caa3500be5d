------------------------- MODULE MCDocumentListing --------------------------
(***************************************************************************)
(* DocumentListing for TLC.  Documents are 1 to 4, the third belongs to    *)
(* another user.  With Int32Limit = 8 the offset of page 9 becomes -8 at   *)
(* one row a page, and 0 at two.                                           *)
(***************************************************************************)
EXTENDS DocumentListing

CONSTANTS alice, bob, root

MCOwnerOf == [d \in Documents |-> IF d = 3 THEN bob ELSE alice]
=============================================================================
