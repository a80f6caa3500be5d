------------------------ MODULE DocumentAccessProofs ------------------------
(***************************************************************************)
(* Theorems about DocumentAccess, for any documents, workers, callers and  *)
(* credentials, and whatever calls fail.                                   *)
(*                                                                         *)
(* Two facts carry them.  What a request has learnt of its document stays  *)
(* true while it goes on, because rows never go away, deleted rows never   *)
(* come back and a failed upload stays failed (Lasting).  And the UPDATE   *)
(* of a DELETE, which matches by id alone, meets a row that the request    *)
(* has seen: it deletes a live document, or changes nothing (Deletes).  So *)
(* the requests do nothing that the pipeline does not already allow, and   *)
(* keep its invariant, of which RowHasObject is what a download needs; or  *)
(* RowsKeepObjects, while no reply of PostgreSQL is lost.                  *)
(***************************************************************************)
EXTENDS DocumentAccess, DocumentPipelineProofs

(* How the requests of an operation may end.                               *)
Errors(op) ==
  {"none", "ErrAuthInvalidToken", "ErrDocumentInvalidRequest", "ErrDocumentForbidden",
   "ErrDocumentNotFound", "ErrCommonInternal"}
  \cup (IF op = "download"
          THEN {"ErrDocumentNotReady", "ErrStorageObjectNotFound", "ErrStorageUnavailable"}
          ELSE {})

(* The request has been let through to the document.                       *)
LetThrough(r) ==
  \/ r.step \in {"open", "delete"}
  \/ r.step = "answered" /\ r.error = "none"

(* What is true of a request that has begun.                               *)
Sound(r) ==
  /\ r.step = "find" \/ LetThrough(r) =>
       /\ r.document \in Documents
       /\ r.credential.type = "access" /\ r.credential.intact
  /\ LetThrough(r) =>
       /\ May(r.credential.user, r.document)
       /\ status[r.document] # "none"
       /\ ~r.late
  /\ r.step = "open" => r.op = "download"
  /\ r.step = "delete" => r.op = "delete"
  /\ r.step \in {"find", "open", "delete"} => r.error = "none"
  /\ r.late => r.document \in deleted
  /\ r.error = "ErrStorageObjectNotFound" =>
       r.document \in Documents /\ upload[r.document] = "failed"
  /\ r.step = "answered" => r.error \in Errors(r.op)

CallsSound == \A c \in Callers : call[c].step # "idle" => Sound(call[c])

AccInv == IInv /\ AccessTypeOK /\ CallsSound

-----------------------------------------------------------------------------
(* A row stays, as do a deletion and the failure of an upload.             *)
Lasting ==
  /\ \A d \in Documents : status[d] # "none" => status'[d] # "none"
  /\ deleted \subseteq deleted'
  /\ \A d \in Documents : upload[d] = "failed" => upload'[d] = "failed"

LEMMA StepLasts == TypeOK /\ [Next]_vars => Lasting
<1> SUFFICES ASSUME TypeOK, [Next]_vars PROVE Lasting
  OBVIOUS
<1>1. ASSUME UNCHANGED <<tableVars, upload>> PROVE Lasting
  BY <1>1 DEF Lasting, tableVars
<1>2. ASSUME NEW d \in Documents, Request(d) PROVE Lasting
  <2>1. \A e \in Documents : upload[e] = "failed" => upload'[e] = "failed"
    BY <1>2 DEF TypeOK, UploadTypeOK, Request, Create, Reject, PutObject, InsertRow, Compensate,
         EnqueueJob, Advance, Delete, Abort, HangUp, InFlight
  <2>2. /\ \A e \in Documents : status[e] # "none" => status'[e] # "none"
        /\ deleted \subseteq deleted'
    BY <1>2, RequestOnRows DEF TypeOK, TableTypeOK, tableVars
  <2> QED
    BY <2>1, <2>2 DEF Lasting
<1>3. ASSUME NEW w \in Workers, Work(w) PROVE Lasting
  <2>1. upload' = upload
    BY <1>3 DEF Work
  <2>2. /\ \A e \in Documents : status[e] # "none" => status'[e] # "none"
        /\ deleted \subseteq deleted'
    BY <1>3, WorkOnRows DEF TypeOK, TableTypeOK, KeepsRows, WinsRow, EndsRow, tableVars
  <2> QED
    BY <2>1, <2>2 DEF Lasting
<1>4. ASSUME NEW w \in Workers, Crash(w) \/ Terminate(w) \/ Restart(w) PROVE Lasting
  BY <1>1, <1>4 DEF Crash, Terminate, Restart
<1>5. CASE (\E d \in Documents : Reenqueue(d)) \/ PushMalformed \/ UNCHANGED vars
  BY <1>1, <1>5, OtherOnRows
<1> QED
  BY <1>2, <1>3, <1>4, <1>5 DEF Next

-----------------------------------------------------------------------------
(* Where a request stands when it moves: the record of its caller is       *)
(* replaced, the others stay.                                              *)
Moves(c, r) == call' = [call EXCEPT ![c] = r]

LEMMA CallsAfter ==
  ASSUME NEW c \in Callers, NEW r \in Call, AccessTypeOK, CallsSound, Lasting,
         Moves(c, r), Sound(r)'
  PROVE  AccessTypeOK' /\ CallsSound'
<1>1. AccessTypeOK'
  BY DEF AccessTypeOK, Moves
<1>2. \A b \in Callers \ {c} : call'[b] = call[b]
  BY DEF AccessTypeOK, Moves
<1>3. ASSUME NEW b \in Callers \ {c}, call'[b].step # "idle" PROVE Sound(call[b])'
  <2>1. call'[b] = call[b] /\ Sound(call[b])
    BY <1>2, <1>3 DEF CallsSound
  <2> QED
    BY <2>1 DEF Sound, LetThrough, Lasting
<1>4. Sound(call[c])'
  <2>1. call'[c] = r
    BY DEF AccessTypeOK, Moves
  <2> QED
    BY <2>1 DEF Sound, LetThrough
<1> QED
  BY <1>1, <1>3, <1>4 DEF CallsSound

LEMMA StatusExists == \A error : As(error) \in DOMAIN StatusOf
  BY DEF As, StatusOf

(* The record of a request that goes on, or fails.                         *)
LEMMA OldCall ==
  ASSUME AccessTypeOK, NEW c \in Callers, call[c].step # "idle"
  PROVE  /\ call[c] \in Call
         /\ \A step \in {"open", "delete", "answered"} :
              /\ [call[c] EXCEPT !.step = step] \in Call
              /\ \A error : [call[c] EXCEPT !.step = "answered", !.error = As(error)] \in Call
<1>1. call[c] \in Call
  BY DEF AccessTypeOK, Idle
<1> QED
  BY <1>1, StatusExists DEF Call
(* The UPDATE of a DELETE is one the pipeline allows, or changes nothing.  *)
LEMMA Deletes ==
  ASSUME AccInv, NEW c \in Callers, DeleteRow(c)
  PROVE  [Next]_vars
<1> DEFINE d == call[c].document
<1>1. d \in Documents /\ status[d] # "none"
  BY DEF AccInv, CallsSound, Sound, LetThrough, DeleteRow
<1>2. UNCHANGED <<cancelled, queueVars, stored, upload, workerVars, injected>>
  BY DEF DeleteRow
<1>3. CASE UNCHANGED tableVars
  BY <1>2, <1>3 DEF vars, queueVars, tableVars, workerVars
<1>4. CASE SoftDeleteDocument(d) /\ Live(d)
  BY <1>1, <1>2, <1>4 DEF Next, Request, Delete
<1>5. CASE SoftDeleteDocument(d) /\ ~Live(d)
  BY <1>1, <1>3, <1>5 DEF SoftDeleteDocument, Live, tableVars
<1> QED
  BY <1>3, <1>4, <1>5 DEF DeleteRow

LEMMA StepOfPipeline ==
  ASSUME AccInv, [AccessNext]_accessVars
  PROVE  [Next]_vars
  BY Deletes DEF AccessNext, Others, accessVars

(* The record of a request that was let in, or sent away.                  *)
LEMMA NewSound ==
  ASSUME UNCHANGED vars, NEW r \in Call, r.late => r.document \in deleted,
         \/ /\ r.step = "find" /\ r.error = "none"
            /\ r.document \in Documents /\ Authenticates(r.credential)
         \/ /\ r.step = "answered"
            /\ r.error \in {"ErrAuthInvalidToken", "ErrDocumentInvalidRequest"}
  PROVE  Sound(r)'
  BY DEF Sound, LetThrough, Errors, Authenticates, vars

LEMMA ReceiveSound ==
  ASSUME AccInv, NEW c \in Callers, Receive(c), UNCHANGED vars
  PROVE  \E r \in Call : Moves(c, r) /\ Sound(r)'
<1>1. PICK op \in Operations, d \in Documents \cup {NoDocument}, credential \in Credentials :
        LET answered(step, error) ==
              [step |-> step, op |-> op, document |-> d, credential |-> credential,
               error |-> error, late |-> d \in deleted]
        IN  Moves(c, IF ~Authenticates(credential) THEN answered("answered", "ErrAuthInvalidToken")
                     ELSE IF d = NoDocument THEN answered("answered", "ErrDocumentInvalidRequest")
                     ELSE answered("find", "none"))
  BY DEF Receive, Moves
<1>2. PICK late \in BOOLEAN : late = (d \in deleted)
  <2>1. (d \in deleted) \in BOOLEAN
    OBVIOUS
  <2> QED
    BY <2>1, Zenon
<1> DEFINE answered(step, error) ==
      [step |-> step, op |-> op, document |-> d, credential |-> credential,
       error |-> error, late |-> late]
<1>3. \A step \in {"find", "answered"},
         error \in {"none", "ErrAuthInvalidToken", "ErrDocumentInvalidRequest"} :
        /\ answered(step, error) \in Call
        /\ answered(step, error).late => d \in deleted
  BY <1>2 DEF Call, StatusOf
<1>4. CASE ~Authenticates(credential)
  <2>1. Moves(c, answered("answered", "ErrAuthInvalidToken"))
    BY <1>1, <1>2, <1>4
  <2>2. Sound(answered("answered", "ErrAuthInvalidToken"))'
    BY <1>3, NewSound
  <2> QED
    BY <1>3, <2>1, <2>2
<1>5. CASE Authenticates(credential) /\ d = NoDocument
  <2>1. Moves(c, answered("answered", "ErrDocumentInvalidRequest"))
    BY <1>1, <1>2, <1>5
  <2>2. Sound(answered("answered", "ErrDocumentInvalidRequest"))'
    BY <1>3, NewSound
  <2> QED
    BY <1>3, <2>1, <2>2
<1>6. CASE Authenticates(credential) /\ d # NoDocument
  <2>1. Moves(c, answered("find", "none"))
    BY <1>1, <1>2, <1>6
  <2>2. Sound(answered("find", "none"))'
    BY <1>3, <1>6, NewSound
  <2> QED
    BY <1>3, <2>1, <2>2
<1> QED
  BY <1>4, <1>5, <1>6

(* A request that goes on, or fails, from a record that is sound.          *)
LEMMA GoesOn ==
  ASSUME AccInv, NEW c \in Callers, call[c].step # "idle",
         NEW step \in {"open", "delete", "answered"}, GoOn(c, step)
  PROVE  /\ [call[c] EXCEPT !.step = step] \in Call
         /\ Moves(c, [call[c] EXCEPT !.step = step])
  BY OldCall DEF AccInv, GoOn, Moves, AccessTypeOK

LEMMA Fails ==
  ASSUME AccInv, NEW c \in Callers, call[c].step # "idle", NEW error, FailWith(c, error)
  PROVE  /\ [call[c] EXCEPT !.step = "answered", !.error = As(error)] \in Call
         /\ Moves(c, [call[c] EXCEPT !.step = "answered", !.error = As(error)])
  BY OldCall DEF AccInv, FailWith, Moves, AccessTypeOK
(* The fields of a request that goes on, or fails, other than its step and *)
(* its error stay.                                                         *)
LEMMA Fields ==
  ASSUME AccInv, NEW c \in Callers, call[c].step # "idle", NEW step, NEW error
  PROVE  LET r == [call[c] EXCEPT !.step = step]
             f == [call[c] EXCEPT !.step = step, !.error = error]
         IN  /\ r.step = step /\ f.step = step /\ f.error = error /\ r.error = call[c].error
             /\ r.op = call[c].op /\ f.op = call[c].op
             /\ r.document = call[c].document /\ f.document = call[c].document
             /\ r.credential = call[c].credential /\ f.credential = call[c].credential
             /\ r.late = call[c].late /\ f.late = call[c].late
<1>1. call[c] \in Call
  BY OldCall DEF AccInv
<1> QED
  BY <1>1 DEF Call

(* A request that fails without the object having been missed.             *)
LEMMA FailureSound ==
  ASSUME AccInv, NEW c \in Callers, Lasting, call[c].step \in {"find", "open", "delete"},
         NEW error, FailWith(c, error),
         \/ As(error) \in Errors(call[c].op) \ {"none", "ErrStorageObjectNotFound"}
         \/ /\ As(error) = "ErrStorageObjectNotFound" /\ call[c].op = "download"
            /\ call[c].document \in Documents /\ upload[call[c].document] = "failed"
  PROVE  \E r \in Call : Moves(c, r) /\ Sound(r)'
<1>1. PICK r \in Call :
        Moves(c, r) /\ r = [call[c] EXCEPT !.step = "answered", !.error = As(error)]
  BY Fails
<1>2. /\ r.step = "answered" /\ r.error = As(error) /\ r.op = call[c].op
      /\ r.document = call[c].document /\ r.late = call[c].late
  BY <1>1, Fields
<1>3. Sound(call[c])
  BY DEF AccInv, CallsSound
<1>4. As(error) \in Errors(call[c].op) \ {"none"}
  BY DEF Errors
<1>5. Sound(r)'
  BY <1>2, <1>3, <1>4 DEF Sound, LetThrough, Lasting
<1> QED
  BY <1>1, <1>5

(* A request that goes on from a document it has been let through to.      *)
LEMMA GoingOnSound ==
  ASSUME AccInv, NEW c \in Callers, Lasting, call[c].step \in {"find", "open", "delete"},
         NEW step \in {"open", "delete", "answered"}, GoOn(c, step),
         May(call[c].credential.user, call[c].document),
         status[call[c].document] # "none", ~call[c].late,
         step = "open" => call[c].op = "download",
         step = "delete" => call[c].op = "delete"
  PROVE  \E r \in Call : Moves(c, r) /\ Sound(r)'
<1>1. PICK r \in Call : Moves(c, r) /\ r = [call[c] EXCEPT !.step = step]
  BY GoesOn
<1>2. /\ r.step = step /\ r.error = call[c].error /\ r.op = call[c].op
      /\ r.document = call[c].document /\ r.credential = call[c].credential
      /\ r.late = call[c].late
  BY <1>1, Fields
<1>3. Sound(call[c])
  BY DEF AccInv, CallsSound
<1>4. Sound(r)'
  BY <1>2, <1>3 DEF Sound, LetThrough, Lasting, Errors
<1> QED
  BY <1>1, <1>4

LEMMA Internal == As("plain") = "ErrCommonInternal"
  BY DEF As, StatusOf

LEMMA Known ==
  \A error \in {"ErrDocumentNotFound", "ErrDocumentForbidden", "ErrDocumentNotReady",
                "ErrStorageUnavailable", "ErrStorageObjectNotFound"} : As(error) = error
  BY DEF As, StatusOf

LEMMA FindSound ==
  ASSUME AccInv, NEW c \in Callers, Lasting, Find(c)
  PROVE  \E r \in Call : Moves(c, r) /\ Sound(r)'
<1>1. call[c].step = "find" /\ call[c].op \in Operations /\ Sound(call[c])
  BY OldCall DEF Find, AccInv, CallsSound, Call
<1>2. CASE FailWith(c, "plain") \/ FailWith(c, "ErrDocumentNotFound")
           \/ FailWith(c, "ErrDocumentForbidden")
  <2>1. ASSUME NEW error \in {"plain", "ErrDocumentNotFound", "ErrDocumentForbidden"}
        PROVE  As(error) \in Errors(call[c].op) \ {"none", "ErrStorageObjectNotFound"}
    BY Internal, Known DEF Errors
  <2> QED
    BY <1>1, <1>2, <2>1, FailureSound
<1>3. CASE MustBeReady(call[c].op) /\ FailWith(c, "ErrDocumentNotReady")
  <2>1. As("ErrDocumentNotReady")
          \in Errors(call[c].op) \ {"none", "ErrStorageObjectNotFound"}
    BY <1>3, Known DEF Errors, MustBeReady
  <2> QED
    BY <1>1, <1>3, <2>1, FailureSound
<1>4. CASE Found(call[c].document) /\ Authorized(c) /\ GoOn(c, Following[call[c].op])
  <2>1. /\ Following[call[c].op] \in {"open", "delete", "answered"}
        /\ Following[call[c].op] = "open" => call[c].op = "download"
        /\ Following[call[c].op] = "delete" => call[c].op = "delete"
    BY <1>1 DEF Operations, Following
  <2>2. /\ status[call[c].document] # "none" /\ ~call[c].late
        /\ May(call[c].credential.user, call[c].document)
    BY <1>1, <1>4 DEF Found, Live, Sound, Authorized
  <2> QED
    BY <1>1, <1>4, <2>1, <2>2, GoingOnSound
<1> QED
  BY <1>2, <1>3, <1>4 DEF Find

LEMMA OpenSound ==
  ASSUME AccInv, NEW c \in Callers, Lasting, OpenObject(c)
  PROVE  \E r \in Call : Moves(c, r) /\ Sound(r)'
<1>1. call[c].step = "open" /\ Sound(call[c])
  BY DEF OpenObject, AccInv, CallsSound
<1>2. /\ call[c].op = "download" /\ call[c].document \in Documents
      /\ status[call[c].document] # "none" /\ ~call[c].late
      /\ May(call[c].credential.user, call[c].document)
  BY <1>1 DEF Sound, LetThrough
<1>3. ASSUME NEW error \in {"ErrStorageUnavailable", "plain"}, FailWith(c, error)
      PROVE  \E r \in Call : Moves(c, r) /\ Sound(r)'
  <2>1. As(error) \in Errors(call[c].op) \ {"none", "ErrStorageObjectNotFound"}
    BY <1>2, Internal, Known DEF Errors
  <2> QED
    BY <1>1, <1>3, <2>1, FailureSound
<1>4. CASE ~Readable(call[c].document) /\ FailWith(c, "ErrStorageObjectNotFound")
  <2>1. upload[call[c].document] = "failed"
    BY <1>2, <1>4 DEF AccInv, IInv, RowHasObject, Readable
  <2> QED
    BY <1>1, <1>2, <1>4, <2>1, Known, FailureSound
<1>5. CASE Succeed(c)
  BY <1>1, <1>2, <1>5, GoingOnSound DEF Succeed
<1> QED
  BY <1>3, <1>4, <1>5 DEF OpenObject

LEMMA DeleteSound ==
  ASSUME AccInv, NEW c \in Callers, Lasting, DeleteRow(c)
  PROVE  \E r \in Call : Moves(c, r) /\ Sound(r)'
<1>1. call[c].step = "delete" /\ Sound(call[c])
  BY DEF DeleteRow, AccInv, CallsSound
<1>2. /\ status[call[c].document] # "none" /\ ~call[c].late
      /\ May(call[c].credential.user, call[c].document)
  BY <1>1 DEF Sound, LetThrough
<1>3. CASE FailWith(c, "plain")
  <2>1. As("plain") \in Errors(call[c].op) \ {"none", "ErrStorageObjectNotFound"}
    BY Internal DEF Errors
  <2> QED
    BY <1>1, <1>3, <2>1, FailureSound
<1>4. CASE Succeed(c)
  BY <1>1, <1>2, <1>4, GoingOnSound DEF Succeed
<1> QED
  BY <1>3, <1>4 DEF DeleteRow

-----------------------------------------------------------------------------
LEMMA AccInvStep == AccInv /\ [AccessNext]_accessVars => AccInv'
<1> SUFFICES ASSUME AccInv, [AccessNext]_accessVars PROVE AccInv'
  OBVIOUS
<1>1. [Next]_vars
  BY StepOfPipeline
<1>2. IInv'
  BY <1>1, InvStep DEF AccInv
<1>3. Lasting
  BY <1>1, StepLasts DEF AccInv, IInv
<1>4. CASE UNCHANGED call
  <2>1. AccessTypeOK'
    BY <1>4 DEF AccInv, AccessTypeOK
  <2>2. CallsSound'
    BY <1>3, <1>4 DEF AccInv, CallsSound, Sound, LetThrough, Lasting
  <2> QED
    BY <1>2, <2>1, <2>2 DEF AccInv
<1>5. ASSUME NEW c \in Callers, \E r \in Call : Moves(c, r) /\ Sound(r)' PROVE AccInv'
  <2>1. PICK r \in Call : Moves(c, r) /\ Sound(r)'
    BY <1>5
  <2> QED
    BY <1>2, <1>3, <2>1, CallsAfter DEF AccInv
<1> QED
  BY <1>3, <1>4, <1>5, ReceiveSound, FindSound, OpenSound, DeleteSound
  DEF AccessNext, Others, accessVars

(* The inductive invariant of the requests.                                *)
THEOREM AccessInvariance == AccessSpec => []AccInv
<1>1. AccessInit => AccInv
  BY InvInit DEF AccessInit, AccInv, AccessTypeOK, CallsSound, Idle
<1> QED
  BY <1>1, AccInvStep, PTL DEF AccessSpec

(* The requests do nothing to the documents that the pipeline does not     *)
(* allow: a DELETE, which finds the row, decides, and updates it by its id *)
(* later, is the Delete of the pipeline in one step, or changes nothing    *)
(* (document_service.go:145-161).                                          *)
THEOREM RequestsImplementPipeline == AccessSpec => Spec
<1>1. AccessInit => Init
  BY DEF AccessInit
<1>2. AccInv /\ [AccessNext]_accessVars => [Next]_vars
  BY StepOfPipeline
<1> QED
  BY <1>1, <1>2, AccessInvariance, PTL DEF AccessSpec, Spec

(* The requests have their types, and no error is answered without a       *)
(* status (errors.go:80-86).                                               *)
THEOREM AccessTypeCorrect == AccessSpec => []AccessTypeOK
  BY AccessInvariance, PTL DEF AccInv

(* Only a proper token of the owner or of an administrator gets through to *)
(* a document, and not at all once it is deleted (document_service.go:     *)
(* 145-161, documents.sql:6-7).                                            *)
THEOREM Guarded == AccessSpec => []RequestsAreGuarded
<1>1. AccInv => OwnersOnly
  BY DEF AccInv, CallsSound, Sound, LetThrough, OwnersOnly
<1>2. AccInv => DeletedStaysGone
  BY DEF AccInv, CallsSound, Sound, LetThrough, DeletedStaysGone
<1> QED
  BY <1>1, <1>2, AccessInvariance, PTL DEF RequestsAreGuarded

(* A download finds the object of its document, whoever deletes the row    *)
(* meanwhile, unless the upload that made the row was told that it failed  *)
(* and took the object away (document_service.go:74-79, 130-151).          *)
THEOREM ObjectIsThere == AccessSpec => []DownloadFindsObject
<1>1. AccInv => DownloadFindsObject
  BY DEF AccInv, CallsSound, Sound, DownloadFindsObject
<1> QED
  BY <1>1, AccessInvariance, PTL

(* No request has been told that the object of its document is missing.    *)
NothingMissed == \A c \in Callers :
  call[c].step # "idle" => call[c].error # "ErrStorageObjectNotFound"

LEMMA ReceiveMoves ==
  ASSUME NEW c \in Callers, Receive(c)
  PROVE  \E r : /\ Moves(c, r)
                /\ r.error \in {"none", "ErrAuthInvalidToken", "ErrDocumentInvalidRequest"}
<1> DEFINE answered(step, op, d, credential, error, late) ==
      [step |-> step, op |-> op, document |-> d, credential |-> credential,
       error |-> error, late |-> late]
<1>1. PICK op \in Operations, d \in Documents \cup {NoDocument}, credential \in Credentials :
        \/ Moves(c, answered("answered", op, d, credential, "ErrAuthInvalidToken", d \in deleted))
        \/ Moves(c, answered("answered", op, d, credential, "ErrDocumentInvalidRequest",
                             d \in deleted))
        \/ Moves(c, answered("find", op, d, credential, "none", d \in deleted))
  BY Zenon DEF Receive, Moves
<1>2. \A step, error, late : answered(step, op, d, credential, error, late).error = error
  OBVIOUS
<1> QED
  BY <1>1, <1>2

LEMMA OpenMissesNothing ==
  ASSUME AccInv, EveryRowHasObject, NothingMissed, NEW c \in Callers, OpenObject(c)
  PROVE  Succeed(c) \/ \E error \in {"ErrStorageUnavailable", "plain"} : FailWith(c, error)
<1>1. call[c].step = "open" /\ Sound(call[c])
  BY DEF OpenObject, AccInv, CallsSound
<1>2. Readable(call[c].document)
  BY <1>1 DEF Sound, LetThrough, EveryRowHasObject, Readable
<1> QED
  BY <1>2 DEF OpenObject

LEMMA NothingMissedStep ==
  ASSUME AccInv, EveryRowHasObject, NothingMissed, [AccessNext]_accessVars
  PROVE  NothingMissed'
<1>1. CASE UNCHANGED call
  BY <1>1 DEF NothingMissed
<1>2. ASSUME NEW c \in Callers, NEW r, Moves(c, r), r.error # "ErrStorageObjectNotFound"
      PROVE  NothingMissed'
  BY <1>2 DEF AccInv, AccessTypeOK, Moves, NothingMissed
<1>3. ASSUME NEW c \in Callers, Receive(c) PROVE NothingMissed'
  <2>1. PICK r : Moves(c, r) /\ r.error \in
                  {"none", "ErrAuthInvalidToken", "ErrDocumentInvalidRequest"}
    BY <1>3, ReceiveMoves
  <2> QED
    BY <1>2, <2>1
<1>4. ASSUME NEW c \in Callers, call[c].step # "idle",
             NEW error \in {"plain", "ErrDocumentNotFound", "ErrDocumentForbidden",
                            "ErrDocumentNotReady", "ErrStorageUnavailable"},
             FailWith(c, error)
      PROVE  NothingMissed'
  <2>1. As(error) # "ErrStorageObjectNotFound"
    BY Internal, Known
  <2>2. PICK r : /\ Moves(c, r)
                 /\ r = [call[c] EXCEPT !.step = "answered", !.error = As(error)]
    BY <1>4, Fails
  <2>3. r.error = As(error)
    BY <1>4, <2>2, Fields
  <2> QED
    BY <1>2, <2>1, <2>2, <2>3
<1>5. ASSUME NEW c \in Callers, call[c].step # "idle",
             NEW step \in {"open", "delete", "answered"}, GoOn(c, step)
      PROVE  NothingMissed'
  <2>1. [call[c] EXCEPT !.step = step].error # "ErrStorageObjectNotFound"
    BY <1>5, Fields DEF NothingMissed
  <2> QED
    BY <1>2, <1>5, <2>1, GoesOn
<1>6. ASSUME NEW c \in Callers, Find(c) PROVE NothingMissed'
  <2>1. call[c].step = "find" /\ call[c].step # "idle" /\ call[c].op \in Operations
    BY <1>6, OldCall DEF Find, AccInv, Call
  <2>2. Following[call[c].op] \in {"open", "delete", "answered"}
    BY <2>1 DEF Operations, Following
  <2> QED
    BY <1>4, <1>5, <1>6, <2>1, <2>2 DEF Find
<1>7. ASSUME NEW c \in Callers, OpenObject(c) PROVE NothingMissed'
  <2>1. call[c].step # "idle"
    BY <1>7 DEF OpenObject
  <2> QED
    BY <1>4, <1>5, <1>7, <2>1, OpenMissesNothing DEF Succeed
<1>8. ASSUME NEW c \in Callers, DeleteRow(c) PROVE NothingMissed'
  BY <1>4, <1>5, <1>8 DEF DeleteRow, Succeed
<1> QED
  BY <1>1, <1>3, <1>6, <1>7, <1>8 DEF AccessNext, Others, accessVars

(* The exception of ObjectIsThere needs an INSERT whose reply was lost:    *)
(* without one no download misses its object, whatever else fails and      *)
(* whoever dies (document_service.go:74-79).                               *)
THEOREM NoDownloadMisses == "database" \notin Losing => (AccessSpec => []NothingMissed)
<1> SUFFICES ASSUME "database" \notin Losing PROVE AccessSpec => []NothingMissed
  OBVIOUS
<1>1. AccessInit => NothingMissed
  BY DEF AccessInit, NothingMissed, Idle
<1>2. AccInv /\ EveryRowHasObject /\ NothingMissed /\ [AccessNext]_accessVars => NothingMissed'
  BY NothingMissedStep
<1>3. AccessSpec => []EveryRowHasObject
  BY RowsKeepObjects, RequestsImplementPipeline, PTL
<1> QED
  BY <1>1, <1>2, <1>3, AccessInvariance, PTL DEF AccessSpec

(* Every error a request can end with has a status its operation documents *)
(* (errors.go:80-86).                                                      *)
THEOREM ContractKept == AccessSpec => []AnswersInContract
<1>1. \A op \in Operations : \A error \in Errors(op) \ {"none"} :
        StatusOf[error] \in Contract[op]
  BY DEF Operations, Errors, StatusOf, Contract
<1>2. \A op \in Operations : (IF op = "delete" THEN 204 ELSE 200) \in Contract[op]
  BY DEF Operations, Contract
<1>3. AccInv => AnswersInContract
  <2> SUFFICES ASSUME AccInv, NEW c \in Callers, call[c].step = "answered"
               PROVE  Answer(c) \in Contract[call[c].op]
    BY DEF AnswersInContract
  <2>1. call[c].op \in Operations /\ call[c].error \in Errors(call[c].op)
    BY OldCall DEF AccInv, CallsSound, Sound, Call
  <2> QED
    BY <1>1, <1>2, <2>1 DEF Answer
<1> QED
  BY <1>3, AccessInvariance, PTL
=============================================================================
