-------------------------- MODULE DocumentLifecycle -------------------------
(***************************************************************************)
(* What the pipeline promises of a document, whatever the queue does and   *)
(* whichever calls fail: its status moves along                            *)
(*                                                                         *)
(*    none -> pending -> processing -> ready                               *)
(*                         ^    |                                          *)
(*                         |    v                                          *)
(*                         failed                                          *)
(*                                                                         *)
(* a processing document has at most one owner, only an owner ends the     *)
(* processing, and ready, or a soft delete, is the end of the story.  An   *)
(* owner may give up without a word; the document then stays as it is.     *)
(***************************************************************************)
CONSTANTS Documents, Workers, Nobody

VARIABLES status, deleted, owner

vars == <<status, deleted, owner>>

Init ==
  /\ status = [d \in Documents |-> "none"]
  /\ deleted = {}
  /\ owner = [d \in Documents |-> Nobody]

Insert(d) ==
  /\ status[d] = "none"
  /\ status' = [status EXCEPT ![d] = "pending"]
  /\ UNCHANGED <<deleted, owner>>

Claim(d, w) ==
  /\ d \notin deleted
  /\ status[d] \in {"pending", "failed"}
  /\ owner[d] = Nobody
  /\ status' = [status EXCEPT ![d] = "processing"]
  /\ owner' = [owner EXCEPT ![d] = w]
  /\ UNCHANGED deleted

Finish(d, result) ==
  /\ d \notin deleted
  /\ status[d] = "processing"
  /\ owner[d] # Nobody
  /\ status' = [status EXCEPT ![d] = result]
  /\ owner' = [owner EXCEPT ![d] = Nobody]
  /\ UNCHANGED deleted

GiveUp(d) ==
  /\ owner[d] # Nobody
  /\ owner' = [owner EXCEPT ![d] = Nobody]
  /\ UNCHANGED <<status, deleted>>

Delete(d) ==
  /\ status[d] # "none"
  /\ deleted' = deleted \cup {d}
  /\ UNCHANGED <<status, owner>>

Next ==
  \E d \in Documents :
    \/ Insert(d)
    \/ \E w \in Workers \cup {Nobody} : Claim(d, w)
    \/ \E result \in {"ready", "failed"} : Finish(d, result)
    \/ GiveUp(d)
    \/ Delete(d)

Spec == Init /\ [][Next]_vars
=============================================================================
