-------------------------- MODULE DocumentPipeline --------------------------
(***************************************************************************)
(* The API servers, the workers and the operator around one queue, one     *)
(* table and one object store.                                             *)
(***************************************************************************)
EXTENDS DocumentUpload, DocumentWorker, FiniteSets

CONSTANT MaxInjected   \* bound on the payloads the operator pushes

ASSUME MaxInjectedAssumption == MaxInjected \in Nat

ASSUME WorkersAssumption == IsFiniteSet(Workers) /\ NoJob \notin Workers

VARIABLE injected      \* how many the operator has pushed

vars == <<cancelled, main, processing, deadLetter, status, deleted, stored,
          upload, pc, claim, injected>>

TypeOK ==
  /\ cancelled \subseteq Documents \cup Workers
  /\ injected \in 0 .. MaxInjected
  /\ QueueTypeOK
  /\ TableTypeOK
  /\ StorageTypeOK
  /\ UploadTypeOK
  /\ WorkerTypeOK

Init ==
  /\ cancelled = {}
  /\ injected = 0
  /\ QueueInit
  /\ TableInit
  /\ StorageInit
  /\ UploadInit
  /\ WorkerInit

(* An operator pushes a first attempt for a row, the "operational re-      *)
(* enqueue" of docs/architecture.md, possibly of one that is queued still, *)
(* or something that is no job.                                            *)
Inject(payload) ==
  /\ injected < MaxInjected
  /\ injected' = injected + 1
  /\ main' = Append(main, payload)
  /\ UNCHANGED <<cancelled, processing, deadLetter, tableVars, stored, upload, workerVars>>

Reenqueue(d) == Live(d) /\ Inject([document |-> d, attempt |-> 1])

PushMalformed == Inject(Malformed)

(* The worker process ends between two calls.                              *)
Crash(w) ==
  /\ CanStop
  /\ pc[w] # "stopped"
  /\ Leave(w, "stopped")
  /\ UNCHANGED <<cancelled, queueVars, tableVars, stored, upload, injected>>

(* SIGINT or SIGTERM cancels the context of cmd/worker.                    *)
Terminate(w) ==
  /\ CanCancel
  /\ pc[w] # "stopped"
  /\ cancelled' = cancelled \cup {w}
  /\ UNCHANGED <<queueVars, tableVars, stored, upload, workerVars, injected>>

(* The supervisor starts the worker again; nothing is recovered.           *)
Restart(w) ==
  /\ pc[w] = "stopped"
  /\ Goto(w, "top")
  /\ cancelled' = cancelled \ {w}
  /\ UNCHANGED <<queueVars, tableVars, stored, upload, injected>>

Request(d) ==
  \/ (Create(d) \/ Delete(d) \/ Abort(d)) /\ UNCHANGED <<cancelled, workerVars, injected>>
  \/ HangUp(d) /\ UNCHANGED <<workerVars, injected>>

Work(w) == WorkerStep(w) /\ UNCHANGED <<cancelled, upload, injected>>

Next ==
  \/ \E d \in Documents : Request(d) \/ Reenqueue(d)
  \/ PushMalformed
  \/ \E w \in Workers : Work(w) \/ Crash(w) \/ Terminate(w) \/ Restart(w)

Spec == Init /\ [][Next]_vars

(* The runtime schedules every worker that can go on.  Nothing says that a *)
(* client finishes a request or that a stopped worker is started again.    *)
FairSpec == Spec /\ \A w \in Workers : WF_vars(Work(w))

-----------------------------------------------------------------------------
(* Two workers never process one document at the same time: the UPDATE of  *)
(* ClaimProcessing lets one of them through (document_worker.go:35-41).    *)
ExclusiveClaim ==
  \A d \in Documents : \A v, w \in Workers : Holds(v, d) /\ Holds(w, d) => v = w

(* A row points at an object that exists, unless its request failed: the   *)
(* object is written before the row (document_service.go:68-74) and only   *)
(* the compensation of that very request deletes it.                       *)
RowHasObject ==
  \A d \in Documents : status[d] # "none" /\ upload[d] # "failed" => d \in stored

(* A document that is ready, or soft-deleted, keeps its status, whatever   *)
(* late or duplicate job a worker still has for it (documents.sql:29-40).  *)
SettledIsFinal ==
  [][\A d \in Documents :
       status[d] = "ready" \/ d \in deleted => status'[d] = status[d]]_vars

(* Every worker busy with a payload has a copy of its own in the           *)
(* processing list, so that a crash loses no payload and an Ack does not   *)
(* remove the copy of another worker (queue/redis.go:94, 112).             *)
Busy(payload) == {w \in Workers : pc[w] \in Backed /\ claim[w] = payload}

ClaimsAreBacked ==
  \A payload \in Payload : Cardinality(Busy(payload)) <= processing[payload]

(* While calls to Redis succeed and no worker dies, the processing list    *)
(* holds exactly what the workers are busy with: whatever else is in it    *)
(* was left by a worker that died or was told to stop after its BLMOVE,    *)
(* and nothing reads it again (queue/redis.go:49-62).                      *)
ProcessingIsHeld ==
  \A payload \in Payload : processing[payload] = Cardinality(Busy(payload))

(* A worker that dies or ends between its BLMOVE and its LREM leaves its   *)
(* payload in the processing list, and a new one does not take it up       *)
(* (queue/redis.go:49-62, 79-101).  Only so does one get stranded: a       *)
(* worker that goes on has removed its copy, and whether its command was   *)
(* carried out, refused or answered with an error, never that of another.  *)
Stranded(payload) == processing[payload] - Cardinality(Busy(payload))

Stops(w) == pc[w] # "stopped" /\ pc'[w] = "stopped"

StrandedByStops ==
  [][\A payload \in Payload :
       Stranded(payload)' # Stranded(payload) =>
         /\ Stranded(payload)' = Stranded(payload) + 1
         /\ \E w \in Workers : Stops(w)]_vars

(* A row that is "processing" although no worker processes it: the reply   *)
(* of the claim, or of the UPDATE that was to end it, was an error, or its *)
(* worker stopped.  A worker that was told nothing went wrong leaves no    *)
(* such row, and no later job takes it up, until it is deleted             *)
(* (document_worker.go:35-53, document_repository.go:81-101).              *)
Orphan(d) ==
  Live(d) /\ status[d] = "processing" /\ \A w \in Workers : ~Holds(w, d)

OrphanedByFault ==
  [][\A d \in Documents :
       /\ Orphan(d)' /\ ~Orphan(d) =>
            \E w \in Workers :
              /\ pc[w] = "claim" \/ Holds(w, d)
              /\ claim[w].document = d
              /\ pc'[w] = "remove" \/ Stops(w)
       /\ Orphan(d) => Orphan(d)' \/ d \in deleted']_vars

(* The inductive invariant.  ExclusiveClaim needs HolderOwnsRow: a claim   *)
(* cannot succeed on a document that is held, as its row is "processing".  *)
(* RowHasObject and SettledIsFinal need UploadOrder: no row, and so no     *)
(* deleted row, exists before the INSERT of its request, which runs once   *)
(* the object is stored.                                                   *)
HolderOwnsRow ==
  \A d \in Documents, w \in Workers : Holds(w, d) => status[d] = "processing"

UploadOrder ==
  \A d \in Documents :
    /\ upload[d] \in {"new", "insert"} => status[d] = "none"
    /\ upload[d] = "insert" => d \in stored
    /\ d \in deleted => status[d] # "none"

IInv ==
  /\ TypeOK
  /\ ExclusiveClaim
  /\ HolderOwnsRow
  /\ UploadOrder
  /\ RowHasObject

-----------------------------------------------------------------------------
(* The lifecycle, seen from the pipeline: the owner of a document is the   *)
(* worker that holds it.                                                   *)
Owner == [d \in Documents |->
            IF \E w \in Workers : Holds(w, d)
              THEN CHOOSE w \in Workers : Holds(w, d) ELSE NoJob]

Lifecycle == INSTANCE DocumentLifecycle WITH Nobody <- NoJob, owner <- Owner

(* Every step of the pipeline is a step of the lifecycle or leaves it      *)
(* alone, with calls refused, replies lost, processes dying and cancelled. *)
LifecycleImplemented == Lifecycle!Spec

-----------------------------------------------------------------------------
(* The queue, seen from the pipeline.  A copy that was handed out is in    *)
(* the processing list, for as long as its worker lives and for ever after *)
(* if it died, or with a worker that has removed it in order to push it.   *)
Pushing(payload) == {w \in Workers : pc[w] = "push" /\ claim[w] = payload}

Held == [payload \in Payload |-> processing[payload] + Cardinality(Pushing(payload))]

Queue == INSTANCE ReliableQueue WITH waiting <- main, held <- Held, dead <- deadLetter

(* The three lists are a reliable queue: although LREM removes by value    *)
(* and a retry is two commands, no worker takes away what another one has, *)
(* no attempt is skipped, and none is made out of turn (queue/redis.go:    *)
(* 79-115).                                                                *)
QueueImplemented == Queue!Spec

-----------------------------------------------------------------------------
JobsOf(d) == {job \in Job : job.document = d}

Queued(d) == \E i \in DOMAIN main : main[i] \in JobsOf(d)
InProcessing(d) == \E job \in JobsOf(d) : processing[job] > 0
DeadLettered(d) == \E job \in JobsOf(d) : deadLetter[job] > 0
BeingRetried(d) == \E w \in Workers : pc[w] = "push" /\ claim[w] \in JobsOf(d)

Unfinished(d) == Live(d) /\ status[d] # "ready"

(* While calls to Redis and the database succeed and no worker dies, a     *)
(* document that was accepted is ready, deleted, or has a job somewhere:   *)
(* neither the skip of a document that another worker holds nor the two    *)
(* halves of Retry lose the last one.                                      *)
UnfinishedHasJob ==
  \A d \in Documents :
    upload[d] = "accepted" /\ Unfinished(d)
      => Queued(d) \/ InProcessing(d) \/ DeadLettered(d) \/ BeingRetried(d)

(* A row that waits for a job which is nowhere, and has no request that    *)
(* would push one.                                                         *)
Jobless(d) ==
  /\ Live(d) /\ status[d] = "pending" /\ upload[d] # "enqueue"
  /\ ~(Queued(d) \/ InProcessing(d) \/ DeadLettered(d) \/ BeingRetried(d))

(* docs/architecture.md:44: whoever uploads a document that will not be    *)
(* processed is told so, with an error or by a connection that breaks;     *)
(* once accepted, a document loses its job only with a worker that stops   *)
(* inside Retry (document_service.go:74-85, queue/redis.go:79-97).         *)
JoblessIsReported ==
  [][\A d \in Documents :
       Jobless(d)' /\ ~Jobless(d) =>
         \/ upload'[d] # upload[d] /\ upload'[d] # "accepted"
         \/ \E w \in Workers :
              /\ pc[w] \in {"remove", "push"}
              /\ claim[w] \in JobsOf(d)
              /\ Stops(w)]_vars

(* Every accepted document ends up ready, deleted, or with a job in the    *)
(* dead-letter list, however often its object cannot be read.              *)
AcceptedSettles ==
  \A d \in Documents :
    upload[d] = "accepted" ~> ~Unfinished(d) \/ DeadLettered(d)

(* Attempts are bounded, so that the workers come to rest: in the end      *)
(* nothing is queued and nothing is left in the processing list.           *)
QueueDrains ==
  <>[](main = <<>> /\ \A payload \in Payload : processing[payload] = 0)

-----------------------------------------------------------------------------
(* docs/architecture.md:42 and :63: an object whose row could not be       *)
(* inserted is deleted again.                                              *)
FailedInsertLeavesNoObject ==
  \A d \in Documents : upload[d] = "failed" /\ status[d] = "none" => d \notin stored

(* docs/architecture.md:53: a job that keeps failing ends up in the dead-  *)
(* letter list, so a failed document has a job left or a dead letter.      *)
FailedKeepsJob ==
  \A d \in Documents :
    status[d] = "failed" /\ d \notin deleted
      => Queued(d) \/ InProcessing(d) \/ DeadLettered(d) \/ BeingRetried(d)

(* docs/architecture.md:53: failures are persisted as "failed", so a       *)
(* document that is still "processing" has a job that goes on with it.     *)
ProcessingKeepsJob ==
  \A d \in Documents :
    status[d] = "processing" /\ d \notin deleted
      => Queued(d) \/ InProcessing(d) \/ DeadLettered(d) \/ BeingRetried(d)
=============================================================================
