--------------------------- MODULE DocumentAccess ---------------------------
(***************************************************************************)
(* GET and DELETE /documents/:id and GET /documents/:id/download, from the *)
(* token to the status code, on the documents of DocumentPipeline.  The    *)
(* next thing the request of caller c does is call[c].step:                *)
(*                                                                         *)
(*     idle --> find -------------> answered   get                         *)
(*       |       |--> open -------> answered   download                    *)
(*       |       +--> delete -----> answered   delete                      *)
(*       +------------------------> answered   no actor, or no id          *)
(*                                                                         *)
(* Between two steps the document may be processed, finished or deleted.   *)
(***************************************************************************)
EXTENDS DocumentPipeline, Actors

CONSTANTS Callers,
          Credentials,  \* what the requests may present
          NoDocument    \* an id that is no positive integer

(* A token of either kind; whether it is sent as "Bearer token" and its    *)
(* signature, issuer, audience and expiry are in order; and its user.      *)
Credential == [type : {"access", "refresh"}, intact : BOOLEAN, user : Users]

ASSUME CallersAssumption ==
  /\ Callers \cap (Documents \cup Workers) = {}
  /\ Credentials \subseteq Credential
  /\ NoDocument \notin Documents

VARIABLE call   \* the request of each caller

accessVars == <<vars, call>>

-----------------------------------------------------------------------------
(* middleware.Auth sets an actor.                                          *)
Authenticates(credential) == credential.intact /\ credential.type = "access"

(* The status of each error a request to one document can end with.        *)
StatusOf ==
  [ErrAuthInvalidToken |-> 401, ErrDocumentInvalidRequest |-> 400,
   ErrDocumentForbidden |-> 403, ErrDocumentNotFound |-> 404,
   ErrDocumentNotReady |-> 409, ErrStorageObjectNotFound |-> 404,
   ErrStorageUnavailable |-> 503, ErrCommonInternal |-> 500]

\* Mutated form: an error without a status is passed on.
AsItIs(error) == error

(* As: an error that wraps none of them is an internal one.                *)
As(error) == IF error \in DOMAIN StatusOf THEN error ELSE "ErrCommonInternal"

Operations == {"get", "download", "delete"}

Idle == [step |-> "idle"]

Call == [step : {"find", "open", "delete", "answered"},
         op : Operations,
         document : Documents \cup {NoDocument},
         credential : Credentials,
         error : DOMAIN StatusOf \cup {"none"},
         late : BOOLEAN]   \* history: the document was deleted before the request

AccessTypeOK == call \in [Callers -> Call \cup {Idle}]

AccessInit ==
  /\ Init
  /\ call = [c \in Callers |-> Idle]

(* What follows Get in each operation.                                     *)
Following == [get |-> "answered", download |-> "open", delete |-> "delete"]

GoOn(c, step) == call' = [call EXCEPT ![c].step = step]

Succeed(c) == GoOn(c, "answered")

(* WriteGin                                                                *)
FailWith(c, error) ==
  call' = [call EXCEPT ![c].step = "answered", ![c].error = As(error)]

(* The middleware, and actorAndID.  A caller makes one request.            *)
Receive(c) ==
  /\ call[c].step = "idle"
  /\ \E op \in Operations, d \in Documents \cup {NoDocument}, credential \in Credentials :
       LET answered(step, error) ==
             [step |-> step, op |-> op, document |-> d, credential |-> credential,
              error |-> error, late |-> d \in deleted]
       IN  call' = [call EXCEPT ![c] =
             IF ~Authenticates(credential) THEN answered("answered", "ErrAuthInvalidToken")
             ELSE IF d = NoDocument THEN answered("answered", "ErrDocumentInvalidRequest")
             ELSE answered("find", "none")]

(* authorizeDocument                                                       *)
Authorized(c) == May(call[c].credential.user, call[c].document)

\* Mutated form: GetByID forgets deleted_at IS NULL.
FoundThoughDeleted(d) == status[d] # "none"

Found(d) == Live(d)

\* Mutated form: the status is looked at in Get.
MustBeReadyToGet(op) == op # "delete"

MustBeReady(op) == op = "download"

(* DocumentService.Get, and in Download the look at the status.  An error  *)
(* of the statement is passed on as it is.                                 *)
Find(c) ==
  /\ call[c].step = "find"
  /\ LET d == call[c].document
         op == call[c].op
     IN  \E reply \in Replies(c, "database") :
           IF reply # "ok" THEN FailWith(c, "plain")
           ELSE IF ~Found(d) THEN FailWith(c, "ErrDocumentNotFound")
           ELSE IF ~Authorized(c) THEN FailWith(c, "ErrDocumentForbidden")
           ELSE IF MustBeReady(op) /\ status[d] # "ready" THEN FailWith(c, "ErrDocumentNotReady")
           ELSE GoOn(c, Following[op])

(* The S3 adapter wraps an error of the SDK, the local one passes it on.   *)
OpenObject(c) ==
  /\ call[c].step = "open"
  /\ \E reply \in Replies(c, "storage") :
       IF reply # "ok" THEN \E error \in {"ErrStorageUnavailable", "plain"} : FailWith(c, error)
       ELSE IF ~Readable(call[c].document) THEN FailWith(c, "ErrStorageObjectNotFound")
       ELSE Succeed(c)

\* Mutated form: the object goes with its row.
DeleteRowAndObject(c) ==
  /\ call[c].step = "delete"
  /\ SoftDeleteDocument(call[c].document)
  /\ stored' = stored \ {call[c].document}
  /\ Succeed(c)
  /\ UNCHANGED <<cancelled, queueVars, upload, workerVars, injected>>

(* SoftDelete.  Its UPDATE matches by id alone, so it always affects a row.*)
DeleteRow(c) ==
  /\ call[c].step = "delete"
  /\ \E reply \in Replies(c, "database") :
       /\ IF Applied(reply) THEN SoftDeleteDocument(call[c].document) ELSE UNCHANGED tableVars
       /\ IF reply = "ok" THEN Succeed(c) ELSE FailWith(c, "plain")
  /\ UNCHANGED <<cancelled, queueVars, stored, upload, workerVars, injected>>

(* The steps of the pipeline, whose Delete is replaced by the requests.    *)
Others == Next /\ deleted' = deleted /\ UNCHANGED call

AccessNext ==
  \/ Others
  \/ \E c \in Callers :
       \/ (Receive(c) \/ Find(c) \/ OpenObject(c)) /\ UNCHANGED vars
       \/ DeleteRow(c)

AccessSpec == AccessInit /\ [][AccessNext]_accessVars

-----------------------------------------------------------------------------
(* The status of the answer.                                               *)
Answer(c) ==
  IF call[c].error # "none" THEN StatusOf[call[c].error]
  ELSE IF call[c].op = "delete" THEN 204 ELSE 200

(* api-spec.yml:196-271: the statuses each operation may answer with.      *)
Contract ==
  [get |-> {200, 400, 401, 403, 404, 500},
   download |-> {200, 400, 401, 403, 404, 409, 500, 503},
   delete |-> {204, 400, 401, 403, 404, 500}]

(* Whatever fails underneath, a request ends with a status its operation   *)
(* documents: an error that is none of pkg/errors becomes a 500, and no    *)
(* answer of one operation leaks into another (errors.go:80-86).           *)
AnswersInContract ==
  \A c \in Callers : call[c].step = "answered" => Answer(c) \in Contract[call[c].op]

(* A row is handed out, opened or deleted only for an access token that is *)
(* in order and whose user owns the document or is an administrator,       *)
(* although the UPDATE that deletes it matches by id alone                 *)
(* (middleware/auth.go:14-34, document_service.go:145-161).                *)
OwnersOnly ==
  \A c \in Callers :
    \/ call[c].step \in {"open", "delete"}
    \/ call[c].step = "answered" /\ call[c].error = "none"
    => LET token == call[c].credential
       IN  /\ token.type = "access" /\ token.intact
           /\ May(token.user, call[c].document)

(* A request made after a document was deleted does not find it any more,  *)
(* whoever makes it and whatever a worker does with the row meanwhile      *)
(* (documents.sql:6-7).                                                    *)
DeletedStaysGone ==
  \A c \in Callers :
    call[c].step = "answered" /\ call[c].late => call[c].error # "none"

(* Who gets through to a document, and when.                               *)
RequestsAreGuarded == OwnersOnly /\ DeletedStaysGone

(* A download that found its document ready finds the object, also if the  *)
(* document is deleted in between; only the compensation of a request that *)
(* failed may have taken it away (document_service.go:130-151).            *)
DownloadFindsObject ==
  \A c \in Callers :
    call[c].step = "answered" /\ call[c].error = "ErrStorageObjectNotFound"
      => upload[call[c].document] = "failed"
=============================================================================
