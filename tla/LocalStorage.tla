---------------------------- MODULE LocalStorage ----------------------------
(***************************************************************************)
(* internal/storage/local.go around one key: Put writes a temporary file   *)
(* beside the target and renames it once it is complete.  The key is fresh *)
(* (randomObjectID), so nobody else writes it; readers and the             *)
(* compensating Delete come at any time.                                   *)
(*                                                                         *)
(*   start -> create -> copy -> close -> publish -> remove -> returned     *)
(*                                                                         *)
(* The first error ends Put, after the deferred removal of the temporary   *)
(* file; the process may die between any two steps.                        *)
(***************************************************************************)
EXTENDS UploadStream

VARIABLES step,       \* of Put
          result,     \* what Put returns: "none" until it is known
          temporary,  \* the temporary file exists
          target,     \* the object's file exists
          opened      \* sizes that readers of the object were told (Stat)

vars == <<streamVars, step, result, temporary, target, opened>>

TypeOK ==
  /\ StreamTypeOK
  /\ step \in {"start", "create", "copy", "close", "publish", "remove", "returned", "dead"}
  /\ result \in {"none", "ok", "error"}
  /\ temporary \in BOOLEAN
  /\ target \in BOOLEAN
  /\ opened \subseteq 0 .. MaxUploadBytes

Init ==
  /\ StreamInit
  /\ step = "start"
  /\ result = "none"
  /\ temporary = FALSE
  /\ target = FALSE
  /\ opened = {}

(* A step of Put fails; the temporary file, if any, is removed last.       *)
Fail(last) ==
  /\ step' = last
  /\ result' = "error"

(* The context, the key and the directory.                                 *)
Prepare ==
  /\ step = "start"
  /\ \/ step' = "create" /\ UNCHANGED result
     \/ Fail("returned")
  /\ UNCHANGED <<streamVars, temporary, target, opened>>

\* Mutated form: the bytes are written to the target itself.
CreateInPlace ==
  /\ step = "create"
  /\ \/ step' = "copy" /\ target' = TRUE /\ UNCHANGED result
     \/ Fail("returned") /\ UNCHANGED target
  /\ UNCHANGED <<streamVars, temporary, opened>>

CreateTemp ==
  /\ step = "create"
  /\ \/ step' = "copy" /\ temporary' = TRUE /\ UNCHANGED result
     \/ Fail("returned") /\ UNCHANGED temporary
  /\ UNCHANGED <<streamVars, target, opened>>

Copy ==
  /\ step = "copy"
  /\ Read
  /\ CASE copy' = "reading" -> UNCHANGED <<step, result>>
       [] copy' = "copied"  -> step' = "close" /\ UNCHANGED result
       [] OTHER             -> Fail("remove")
  /\ UNCHANGED <<temporary, target, opened>>

\* Mutated form: the error returns before the deferred removal is set up.
CloseLeaks ==
  /\ step = "close"
  /\ \/ step' = "publish" /\ UNCHANGED result
     \/ Fail("returned")
  /\ UNCHANGED <<streamVars, temporary, target, opened>>

Close ==
  /\ step = "close"
  /\ \/ step' = "publish" /\ UNCHANGED result
     \/ Fail("remove")
  /\ UNCHANGED <<streamVars, temporary, target, opened>>

\* Mutated form: the error of the rename is dropped.
PublishUnchecked ==
  /\ step = "publish"
  /\ \/ temporary' = FALSE /\ target' = TRUE
     \/ UNCHANGED <<temporary, target>>
  /\ result' = "ok"
  /\ step' = "remove"
  /\ UNCHANGED <<streamVars, opened>>

Publish ==
  /\ step = "publish"
  /\ \/ /\ temporary' = FALSE
        /\ target' = TRUE
        /\ result' = "ok"
        /\ step' = "remove"
     \/ Fail("remove") /\ UNCHANGED <<temporary, target>>
  /\ UNCHANGED <<streamVars, opened>>

(* The deferred os.Remove, after a rename too: the name is free by then.   *)
RemoveTemp ==
  /\ step = "remove"
  /\ temporary' = FALSE
  /\ step' = "returned"
  /\ UNCHANGED <<streamVars, result, target, opened>>

Die ==
  /\ step \notin {"returned", "dead"}
  /\ step' = "dead"
  /\ UNCHANGED <<streamVars, result, temporary, target, opened>>

(* Open: the file of the object, if it is there, with its size.            *)
Open ==
  /\ target
  /\ opened' = opened \cup {count}
  /\ UNCHANGED <<streamVars, step, result, temporary, target>>

(* Delete: an object that is not there is deleted already.                 *)
Delete ==
  /\ step = "returned"
  /\ target' = FALSE
  /\ UNCHANGED <<streamVars, step, result, temporary, opened>>

Next ==
  \/ Prepare \/ CreateTemp \/ Copy \/ Close \/ Publish \/ RemoveTemp
  \/ Die \/ Open \/ Delete

Spec == Init /\ [][Next]_vars
-----------------------------------------------------------------------------
(* Readers see the whole stream or no object: never a part of it, while it *)
(* is written, after an error or after the process died (local.go:52-67).  *)
ReadersSeeAll == target \/ opened # {} => copy = "copied" /\ opened \subseteq {length}

(* A Put that reports success has stored a stream within the limit, and    *)
(* one that reports an error has left neither an object nor a temporary    *)
(* file behind: DocumentService.Create deletes nothing when Put fails      *)
(* (document_service.go:68-73).                                            *)
PutIsAllOrNothing ==
  step = "returned" =>
    /\ ~temporary
    /\ result = "ok" => copy = "copied"
    /\ result = "error" => ~target /\ opened = {}

(* The object, seen from the store of the document pipeline: one document, *)
(* whose object is the file that was renamed.                              *)
Stored == IF target THEN {"document"} ELSE {}

Objects == INSTANCE ObjectStorage
             WITH Documents <- {"document"}, Workers <- {}, Refusing <- {"storage"},
                  Losing <- {}, cancelled <- {}, stored <- Stored

(* The steps of Put come to the one step that DocumentUpload takes it for: *)
(* the object appears when the result becomes "ok", and at no other time;  *)
(* an error changes nothing, and what was an error, or was deleted, stays  *)
(* so (local.go:37-69).                                                    *)
PutIsOneStep ==
  /\ Objects!StorageInit
  /\ [][\/ /\ result = "none"
          /\ \E reply \in {"ok", "refused"} :
               /\ Objects!Put("document", reply)
               /\ result' = IF reply = "ok" THEN "ok" ELSE "error"
        \/ /\ step = "returned"
           /\ Objects!DeleteObject("document", "ok")
           /\ UNCHANGED result]_<<Stored, result>>

(* The inductive invariant: the file that is renamed is complete, and only *)
(* the rename makes the object appear.                                     *)
StepsInOrder ==
  /\ step \in {"start", "create"} => copy = "reading" /\ ~temporary
  /\ step = "copy" => copy = "reading"
  /\ step \in {"close", "publish"} => copy = "copied"
  /\ result = "ok" => copy = "copied" /\ step \in {"remove", "returned", "dead"}
  /\ result = "error" => ~target /\ opened = {} /\ step \in {"remove", "returned", "dead"}
  /\ result = "none" => ~target /\ opened = {} /\ step \notin {"remove", "returned"}
  /\ step = "returned" => ~temporary
  /\ opened # {} => opened = {length}

IInv ==
  /\ TypeOK
  /\ NothingSkipped
  /\ StepsInOrder
=============================================================================
