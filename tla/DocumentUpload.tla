--------------------------- MODULE DocumentUpload ---------------------------
(***************************************************************************)
(* internal/service/document_service.go: Create, which writes the object,  *)
(* then the row, then the job, in three services that share no             *)
(* transaction, and Delete.  Every element of Documents is one POST        *)
(* /documents request; the next call it makes is upload[d]:                *)
(*                                                                         *)
(*     new ----> insert ----> enqueue ----> accepted      201              *)
(*      |          |             |                                         *)
(*      |          v             +--------> unqueued      503, row kept    *)
(*      |      compensate                                                  *)
(*      |          |                                                       *)
(*      +----------+----------------------> failed        no document      *)
(*                                                                         *)
(* A request whose server dies on the way is "aborted".                    *)
(***************************************************************************)
EXTENDS RedisQueue, DocumentTable, ObjectStorage

CONSTANTS CanStop,    \* BOOLEAN: processes may die between two calls
          CanCancel   \* BOOLEAN: clients may hang up, workers get SIGTERM

ASSUME FaultsAssumption == CanStop \in BOOLEAN /\ CanCancel \in BOOLEAN

VARIABLE upload

InFlight == {"new", "insert", "compensate", "enqueue"}
Ended == {"accepted", "unqueued", "failed", "aborted"}

UploadTypeOK == upload \in [Documents -> InFlight \cup Ended]

UploadInit == upload = [d \in Documents |-> "new"]

\* The next call of the request.
Advance(d, from, to) ==
  /\ upload[d] = from
  /\ upload' = [upload EXCEPT ![d] = to]

(* A request that fails validation, or whose stream turns out longer than  *)
(* maxUploadBytes, leaves nothing behind.                                  *)
Reject(d) ==
  /\ Advance(d, "new", "failed")
  /\ UNCHANGED <<queueVars, tableVars, stored>>

\* Mutated form: the error of Put is not looked at.
PutUnchecked(d) ==
  \E reply \in Replies(d, "storage") :
    /\ Advance(d, "new", "insert")
    /\ Put(d, reply)
    /\ UNCHANGED <<queueVars, tableVars>>

PutObject(d) ==
  \E reply \in Replies(d, "storage") :
    /\ Advance(d, "new", IF reply = "ok" THEN "insert" ELSE "failed")
    /\ Put(d, reply)
    /\ UNCHANGED <<queueVars, tableVars>>

InsertRow(d) ==
  \E reply \in Replies(d, "database") :
    /\ Advance(d, "insert", IF reply = "ok" THEN "enqueue" ELSE "compensate")
    /\ CreateDocument(d, reply)
    /\ UNCHANGED <<queueVars, stored>>

(* The object is deleted with the context of the request itself.           *)
Compensate(d) ==
  \E reply \in Replies(d, "storage") :
    /\ Advance(d, "compensate", "failed")
    /\ DeleteObject(d, reply)
    /\ UNCHANGED <<queueVars, tableVars>>

\* Mutated form: the error of Enqueue is logged and the document accepted.
EnqueueUnchecked(d) ==
  \E reply \in Replies(d, "redis") :
    /\ Advance(d, "enqueue", "accepted")
    /\ Enqueue(d, reply)
    /\ UNCHANGED <<tableVars, stored>>

EnqueueJob(d) ==
  \E reply \in Replies(d, "redis") :
    /\ Advance(d, "enqueue", IF reply = "ok" THEN "accepted" ELSE "unqueued")
    /\ Enqueue(d, reply)
    /\ UNCHANGED <<tableVars, stored>>

Create(d) ==
  \/ Reject(d)
  \/ PutObject(d)
  \/ InsertRow(d)
  \/ Compensate(d)
  \/ EnqueueJob(d)

(* DELETE /documents/:id.  Between its GetByID and its UPDATE nothing that *)
(* Delete depends on can change, as the UPDATE matches by id alone; so the *)
(* two are one step.                                                       *)
Delete(d) ==
  /\ Live(d)
  /\ SoftDeleteDocument(d)
  /\ UNCHANGED <<upload, queueVars, stored>>

(* The server process ends between two calls of the request.               *)
Abort(d) ==
  /\ CanStop
  /\ upload[d] \in InFlight \ {"new"}
  /\ upload' = [upload EXCEPT ![d] = "aborted"]
  /\ UNCHANGED <<queueVars, tableVars, stored>>

(* The client closes the connection: net/http cancels the context of the   *)
(* request, and the handler keeps running.                                 *)
HangUp(d) ==
  /\ CanCancel
  /\ upload[d] \in InFlight \ {"new"}
  /\ cancelled' = cancelled \cup {d}
  /\ UNCHANGED <<upload, queueVars, tableVars, stored>>
=============================================================================
