----------------------- MODULE DocumentPipelineProofs -----------------------
(***************************************************************************)
(* Proofs about DocumentPipeline, for any documents and workers, any       *)
(* number of attempts and any faults.                                      *)
(***************************************************************************)
EXTENDS DocumentPipeline, SequenceTheorems, FiniteSetTheorems, TLAPS

(* What a retried job is: still a job, as its attempt was not the last.    *)
LEMMA NextAttemptType ==
  ASSUME NEW job \in Job, ~Exhausted(job)
  PROVE  NextAttempt(job) \in Job
BY MaxAttemptsAssumption DEF Job, Exhausted, NextAttempt

(* The queue's commands keep the types of its lists.                       *)
LEMMA MoveType ==
  ASSUME QueueTypeOK, NEW reply, MoveToProcessing(reply)
  PROVE  /\ QueueTypeOK'
         /\ reply # "refused" => main # <<>> /\ Head(main) \in Payload
<1>1. CASE reply = "refused"
  BY <1>1 DEF MoveToProcessing, Applied, queueVars, QueueTypeOK
<1>2. CASE reply # "refused"
  <2>1. main # <<>> /\ main' = Tail(main) /\ UNCHANGED deadLetter
        /\ processing' = [processing EXCEPT ![Head(main)] = @ + 1]
    BY <1>2 DEF MoveToProcessing
  <2>2. Head(main) \in Payload /\ Tail(main) \in Seq(Payload)
    BY <2>1, HeadTailProperties DEF QueueTypeOK
  <2>. QED  BY <2>1, <2>2 DEF QueueTypeOK
<1>. QED  BY <1>1, <1>2

LEMMA RemoveType ==
  ASSUME QueueTypeOK, NEW payload \in Payload, NEW reply,
         RemoveFromProcessing(payload, reply)
  PROVE  QueueTypeOK'
BY DEF QueueTypeOK, RemoveFromProcessing, LRem

LEMMA PushType ==
  ASSUME QueueTypeOK, NEW payload \in Payload, main' = Append(main, payload),
         UNCHANGED <<processing, deadLetter>>
  PROVE  QueueTypeOK'
BY AppendProperties DEF QueueTypeOK

LEMMA RetryType ==
  ASSUME QueueTypeOK, NEW job \in Job, NEW reply, PushRetry(job, reply)
  PROVE  QueueTypeOK'
<1>1. CASE ~Applied(reply)
  BY <1>1 DEF QueueTypeOK, PushRetry
<1>2. CASE Applied(reply) /\ Exhausted(job)
  BY <1>2 DEF QueueTypeOK, PushRetry
<1>3. CASE Applied(reply) /\ ~Exhausted(job)
  <2>1. NextAttempt(job) \in Payload
    BY <1>3, NextAttemptType DEF Payload
  <2>. QED  BY <1>3, <2>1, PushType DEF PushRetry
<1>. QED  BY <1>1, <1>2, <1>3

-----------------------------------------------------------------------------
(* Every step of a request keeps the types.                                *)
LEMMA RequestType ==
  ASSUME TypeOK, NEW d \in Documents, Request(d)
  PROVE  TypeOK'
<1>. USE DEF TypeOK, TableTypeOK, StorageTypeOK, UploadTypeOK, Status, InFlight, Ended
<1>1. CASE Create(d) /\ UNCHANGED <<cancelled, workerVars, injected>>
  <2>. WorkerTypeOK'
    BY <1>1 DEF WorkerTypeOK, workerVars
  <2>1. CASE Reject(d)
    BY <1>1, <2>1 DEF Reject, Advance, QueueTypeOK, queueVars, tableVars
  <2>2. CASE PutObject(d)
    BY <1>1, <2>2 DEF PutObject, Advance, Put, QueueTypeOK, queueVars, tableVars
  <2>3. CASE InsertRow(d)
    BY <1>1, <2>3 DEF InsertRow, Advance, CreateDocument, QueueTypeOK, queueVars
  <2>4. CASE Compensate(d)
    BY <1>1, <2>4 DEF Compensate, Advance, DeleteObject, QueueTypeOK, queueVars, tableVars
  <2>5. CASE EnqueueJob(d)
    <3>1. [document |-> d, attempt |-> 1] \in Payload
      BY MaxAttemptsAssumption DEF Payload, Job
    <3>2. PICK reply \in Replies(d, "redis") : Enqueue(d, reply)
      BY <2>5 DEF EnqueueJob
    <3>3. QueueTypeOK'
      BY <3>1, <3>2, PushType DEF Enqueue, QueueTypeOK
    <3>. QED  BY <1>1, <2>5, <3>3 DEF EnqueueJob, Advance, tableVars
  <2>. QED  BY <1>1, <2>1, <2>2, <2>3, <2>4, <2>5 DEF Create
<1>2. CASE Delete(d) /\ UNCHANGED <<cancelled, workerVars, injected>>
  BY <1>2 DEF Delete, SoftDeleteDocument, QueueTypeOK, queueVars, WorkerTypeOK, workerVars
<1>3. CASE Abort(d) /\ UNCHANGED <<cancelled, workerVars, injected>>
  BY <1>3 DEF Abort, QueueTypeOK, queueVars, tableVars, WorkerTypeOK, workerVars
<1>4. CASE HangUp(d) /\ UNCHANGED <<workerVars, injected>>
  BY <1>4 DEF HangUp, QueueTypeOK, queueVars, tableVars, WorkerTypeOK, workerVars
<1>. QED  BY <1>1, <1>2, <1>3, <1>4 DEF Request

(* Moving to a label at which a worker has a job, or to one at which it    *)
(* has none, keeps the types of the workers' variables.                    *)
LEMMA GotoType ==
  ASSUME WorkerTypeOK, NEW w \in Workers, claim[w] \in Job,
         NEW label \in (Backed \ {"discard"}) \cup {"push"}, Goto(w, label)
  PROVE  WorkerTypeOK'
BY MalformedAssumption DEF WorkerTypeOK, Goto, Labels, Backed

LEMMA LeaveType ==
  ASSUME WorkerTypeOK, NEW w \in Workers,
         NEW label \in {"top", "stopped"}, Leave(w, label)
  PROVE  WorkerTypeOK'
BY DEF WorkerTypeOK, Leave, Labels, Backed

(* The rows stay rows.                                                     *)
LEMMA RowType ==
  ASSUME TableTypeOK, NEW d \in Documents, NEW reply,
         \/ ClaimDocumentProcessing(d, reply)
         \/ \E result \in {"ready", "failed"} : MarkDocument(d, result, reply)
  PROVE  TableTypeOK'
BY DEF TableTypeOK, Status, ClaimDocumentProcessing, MarkDocument

(* Every step of a worker keeps the types.                                 *)
LEMMA WorkType ==
  ASSUME TypeOK, NEW w \in Workers, Work(w)
  PROVE  TypeOK'
<1>. QueueTypeOK /\ TableTypeOK /\ WorkerTypeOK
  BY DEF TypeOK
<1>. SUFFICES ASSUME TRUE PROVE QueueTypeOK' /\ TableTypeOK' /\ StorageTypeOK' /\ WorkerTypeOK'
  BY DEF TypeOK, Work, UploadTypeOK
<1>. USE DEF Backed
<1>0. pc[w] \in {"load", "claim", "read", "markReady", "markFailed", "ack", "remove", "push"}
        => claim[w] \in Job /\ claim[w].document \in Documents
  BY DEF WorkerTypeOK, Job
<1>1. stored' = stored /\ StorageTypeOK'
  BY DEF Work, WorkerStep, CheckContext, Consume, Discard, Load, Claim, Read,
         MarkReady, MarkFailed, Ack, RetryRemove, RetryPush, StorageTypeOK, TypeOK
<1>2. CASE CheckContext(w)
  BY <1>1, <1>2 DEF CheckContext, Goto, WorkerTypeOK, Labels, queueVars, tableVars,
                    QueueTypeOK, TableTypeOK
<1>3. CASE Consume(w)
  <2>1. PICK reply : /\ MoveToProcessing(reply)
                     /\ reply = "ok" \/ Leave(w, "stopped")
                     /\ reply = "ok" => /\ claim' = [claim EXCEPT ![w] = Head(main)]
                                        /\ pc' = [pc EXCEPT ![w] =
                                             IF Head(main) = Malformed THEN "discard" ELSE "load"]
    BY <1>3 DEF Consume
  <2>2. QueueTypeOK'
    BY <2>1, MoveType
  <2>3. CASE reply = "ok"
    <3>1. Head(main) \in Payload
      BY <2>1, <2>3, MoveType
    <3>. QED  BY <1>1, <1>3, <2>1, <2>2, <2>3, <3>1
              DEF Consume, WorkerTypeOK, Labels, Payload, TableTypeOK, tableVars
  <2>4. CASE reply # "ok"
    BY <1>1, <1>3, <2>1, <2>2, <2>4, LeaveType DEF Consume, TableTypeOK, tableVars
  <2>. QED  BY <2>3, <2>4
<1>4. CASE Discard(w)
  <2>1. claim[w] \in Payload
    BY <1>4 DEF Discard, WorkerTypeOK, Payload
  <2>2. QueueTypeOK'
    BY <1>4, <2>1, RemoveType DEF Discard
  <2>. QED  BY <1>1, <1>4, <2>2, LeaveType DEF Discard, TableTypeOK, tableVars
<1>5. CASE Load(w)
  BY <1>0, <1>1, <1>5, GotoType
     DEF Load, AfterLoad, queueVars, tableVars, QueueTypeOK, TableTypeOK
<1>6. CASE Claim(w)
  <2>1. QueueTypeOK' /\ TableTypeOK'
    BY <1>0, <1>6, RowType DEF Claim, queueVars, QueueTypeOK
  <2>. QED  BY <1>0, <1>1, <1>6, <2>1, GotoType DEF Claim, AfterClaim
<1>7. CASE Read(w)
  BY <1>0, <1>1, <1>7, GotoType DEF Read, queueVars, tableVars, QueueTypeOK, TableTypeOK
<1>8. CASE MarkReady(w)
  <2>1. QueueTypeOK' /\ TableTypeOK'
    BY <1>0, <1>8, RowType DEF MarkReady, queueVars, QueueTypeOK
  <2>. QED  BY <1>0, <1>1, <1>8, <2>1, GotoType DEF MarkReady
<1>9. CASE MarkFailed(w)
  <2>1. QueueTypeOK' /\ TableTypeOK'
    BY <1>0, <1>9, RowType DEF MarkFailed, queueVars, QueueTypeOK
  <2>. QED  BY <1>0, <1>1, <1>9, <2>1, GotoType DEF MarkFailed
<1>10. CASE Ack(w)
  <2>1. QueueTypeOK'
    BY <1>0, <1>10, RemoveType DEF Ack, Payload
  <2>. QED  BY <1>1, <1>10, <2>1, LeaveType DEF Ack, TableTypeOK, tableVars
<1>11. CASE RetryRemove(w)
  <2>1. QueueTypeOK'
    BY <1>0, <1>11, RemoveType DEF RetryRemove, Payload
  <2>. QED  BY <1>0, <1>1, <1>11, <2>1, GotoType, LeaveType
            DEF RetryRemove, TableTypeOK, tableVars
<1>12. CASE RetryPush(w)
  <2>1. QueueTypeOK'
    BY <1>0, <1>12, RetryType DEF RetryPush
  <2>. QED  BY <1>1, <1>12, <2>1, LeaveType DEF RetryPush, TableTypeOK, tableVars
<1>. QED  BY <1>2, <1>3, <1>4, <1>5, <1>6, <1>7, <1>8, <1>9, <1>10, <1>11, <1>12
          DEF Work, WorkerStep

(* Every step keeps the types.                                             *)
LEMMA TypeStep == TypeOK /\ [Next]_vars => TypeOK'
<1>. SUFFICES ASSUME TypeOK, [Next]_vars PROVE TypeOK'
  OBVIOUS
<1>. USE DEF TypeOK
<1>1. ASSUME NEW payload \in Payload, Inject(payload)
      PROVE  TypeOK'
  BY <1>1, PushType, MaxInjectedAssumption
     DEF Inject, TableTypeOK, StorageTypeOK, UploadTypeOK, WorkerTypeOK, tableVars, workerVars
<1>2. ASSUME NEW d \in Documents, Request(d) \/ Reenqueue(d)
      PROVE  TypeOK'
  <2>1. [document |-> d, attempt |-> 1] \in Payload
    BY MaxAttemptsAssumption DEF Payload, Job
  <2>. QED  BY <1>1, <1>2, <2>1, RequestType DEF Reenqueue
<1>3. CASE PushMalformed
  BY <1>1, <1>3 DEF PushMalformed, Payload
<1>4. ASSUME NEW w \in Workers, Work(w) \/ Crash(w) \/ Terminate(w) \/ Restart(w)
      PROVE  TypeOK'
  <2>1. CASE Work(w)
    BY <2>1, WorkType
  <2>2. CASE Crash(w)
    BY <2>2, LeaveType DEF Crash, QueueTypeOK, TableTypeOK, StorageTypeOK, UploadTypeOK,
                           queueVars, tableVars
  <2>3. CASE Terminate(w)
    BY <2>3 DEF Terminate, QueueTypeOK, TableTypeOK, StorageTypeOK, UploadTypeOK,
                WorkerTypeOK, queueVars, tableVars, workerVars
  <2>4. CASE Restart(w)
    BY <2>4 DEF Restart, Goto, QueueTypeOK, TableTypeOK, StorageTypeOK, UploadTypeOK,
                WorkerTypeOK, Labels, queueVars, tableVars
  <2>. QED  BY <1>4, <2>1, <2>2, <2>3, <2>4
<1>5. CASE UNCHANGED vars
  BY <1>5 DEF vars, QueueTypeOK, TableTypeOK, StorageTypeOK, UploadTypeOK, WorkerTypeOK
<1>. QED  BY <1>2, <1>3, <1>4, <1>5 DEF Next

(* The initial state has the types.                                        *)
LEMMA TypeInit == Init => TypeOK
BY MaxInjectedAssumption
   DEF Init, TypeOK, QueueInit, QueueTypeOK, TableInit, TableTypeOK, Status, StorageInit,
       StorageTypeOK, UploadInit, UploadTypeOK, InFlight, Ended, WorkerInit, WorkerTypeOK,
       Labels, Backed

(* Types are right in every reachable state, and no job has more attempts  *)
(* than configured (queue/redis.go:82-89).                                 *)
THEOREM TypeCorrect == Spec => []TypeOK
BY TypeInit, TypeStep, PTL DEF Spec

-----------------------------------------------------------------------------
(* What a step of a worker does to the rows and to the documents it holds: *)
(* nothing to a row, and no new document held; or it wins a document; or   *)
(* it ends the processing of the one it holds.                             *)
KeepsRows(w) ==
  /\ UNCHANGED tableVars
  /\ \A d \in Documents : Holds(w, d)' => Holds(w, d)

WinsRow(w, d) ==
  /\ Claimable(d)
  /\ status' = [status EXCEPT ![d] = "processing"]
  /\ UNCHANGED deleted
  /\ \A e \in Documents : ~Holds(w, e) /\ (Holds(w, e)' => e = d)

EndsRow(w, d, result) ==
  /\ Holds(w, d)
  /\ Markable(d)
  /\ status' = [status EXCEPT ![d] = result]
  /\ UNCHANGED deleted
  /\ \A e \in Documents : ~Holds(w, e)'

OthersKeep(w) ==
  \A v \in Workers \ {w} :
    /\ pc'[v] = pc[v] /\ claim'[v] = claim[v]
    /\ \A d \in Documents : Holds(v, d)' <=> Holds(v, d)

LEMMA WorkOthers ==
  ASSUME TypeOK, NEW w \in Workers, Work(w)
  PROVE  OthersKeep(w)
<1>1. \A v \in Workers \ {w} : pc'[v] = pc[v] /\ claim'[v] = claim[v]
  BY DEF TypeOK, WorkerTypeOK, Work, WorkerStep, CheckContext, Consume, Discard, Load, Claim,
         Read, MarkReady, MarkFailed, Ack, RetryRemove, RetryPush, Goto, Leave
<1>. QED  BY <1>1 DEF OthersKeep, Holds

LEMMA MarkEffect ==
  ASSUME TypeOK, NEW w \in Workers, NEW result \in {"ready", "failed"}, NEW reply,
         pc[w] \in {"markReady", "markFailed"},
         MarkDocument(claim[w].document, result, reply),
         pc' = [pc EXCEPT ![w] = "ack"] \/ pc' = [pc EXCEPT ![w] = "remove"]
  PROVE  KeepsRows(w) \/ EndsRow(w, claim[w].document, result)
<1>1. \A e \in Documents : ~Holds(w, e)'
  BY DEF TypeOK, WorkerTypeOK, Holds
<1>. QED  BY <1>1 DEF MarkDocument, KeepsRows, EndsRow, Holds, tableVars

LEMMA WorkOnRows ==
  ASSUME TypeOK, NEW w \in Workers, Work(w)
  PROVE  \/ KeepsRows(w)
         \/ \E d \in Documents : WinsRow(w, d)
         \/ \E d \in Documents, result \in {"ready", "failed"} : EndsRow(w, d, result)
<1>. USE DEF TypeOK, WorkerTypeOK
<1>0. pc[w] \in {"claim", "markReady", "markFailed"} => claim[w].document \in Documents
  BY DEF Job
<1>1. CASE Claim(w)
  <2>1. PICK reply : /\ ClaimDocumentProcessing(claim[w].document, reply)
                     /\ Goto(w, AfterClaim(claim[w].document, reply))
    BY <1>1 DEF Claim
  <2>2. \A e \in Documents : ~Holds(w, e)
    BY <1>1 DEF Claim, Holds
  <2>3. CASE Applied(reply) /\ Claimable(claim[w].document)
    BY <1>0, <1>1, <2>1, <2>2, <2>3 DEF Claim, WinsRow, ClaimDocumentProcessing, Goto, Holds
  <2>4. CASE ~(Applied(reply) /\ Claimable(claim[w].document))
    BY <1>1, <2>1, <2>4
       DEF Claim, KeepsRows, ClaimDocumentProcessing, Goto, Holds, AfterClaim, Applied, tableVars
  <2>. QED  BY <2>3, <2>4
<1>2. CASE MarkReady(w)
  <2>1. PICK reply : MarkDocument(claim[w].document, "ready", reply)
    BY <1>2 DEF MarkReady
  <2>2. KeepsRows(w) \/ EndsRow(w, claim[w].document, "ready")
    <3>1. pc' = [pc EXCEPT ![w] = "ack"] \/ pc' = [pc EXCEPT ![w] = "remove"]
      BY <1>2 DEF MarkReady, Goto
    <3>. HIDE DEF TypeOK
    <3>. QED  BY <1>2, <2>1, <3>1, MarkEffect DEF MarkReady
  <2>. QED  BY <1>0, <1>2, <2>2 DEF MarkReady
<1>3. CASE MarkFailed(w)
  <2>1. PICK reply : MarkDocument(claim[w].document, "failed", reply)
    BY <1>3 DEF MarkFailed
  <2>2. KeepsRows(w) \/ EndsRow(w, claim[w].document, "failed")
    <3>1. pc' = [pc EXCEPT ![w] = "ack"] \/ pc' = [pc EXCEPT ![w] = "remove"]
      BY <1>3 DEF MarkFailed, Goto
    <3>. HIDE DEF TypeOK
    <3>. QED  BY <1>3, <2>1, <3>1, MarkEffect DEF MarkFailed
  <2>. QED  BY <1>0, <1>3, <2>2 DEF MarkFailed
<1>4. CASE Read(w)
  BY <1>4 DEF Read, KeepsRows, Goto, Holds, tableVars
<1>5. CASE CheckContext(w) \/ Consume(w) \/ Discard(w) \/ Load(w) \/ Ack(w)
           \/ RetryRemove(w) \/ RetryPush(w)
  <2>1. UNCHANGED tableVars
    BY <1>5 DEF CheckContext, Consume, Discard, Load, Ack, RetryRemove, RetryPush
  <2>2. pc'[w] \notin {"read", "markReady", "markFailed"}
    BY <1>5 DEF CheckContext, Consume, Discard, Load, AfterLoad, Ack, RetryRemove, RetryPush,
                Goto, Leave
  <2>. QED  BY <2>1, <2>2 DEF KeepsRows, Holds
<1>. QED  BY <1>1, <1>2, <1>3, <1>4, <1>5 DEF Work, WorkerStep

(* So does a step that does not belong to the program of the worker.       *)
LEMMA FaultOnRows ==
  ASSUME TypeOK, NEW w \in Workers, Crash(w) \/ Terminate(w) \/ Restart(w)
  PROVE  KeepsRows(w) /\ OthersKeep(w)
BY DEF TypeOK, WorkerTypeOK, Crash, Terminate, Restart, Goto, Leave, Holds, KeepsRows,
       OthersKeep, workerVars, tableVars

(* What a step that belongs to no worker does to a row: it is inserted by  *)
(* its request, or soft-deleted, or left alone.                            *)
LEMMA RequestOnRows ==
  ASSUME TypeOK, NEW d \in Documents, Request(d)
  PROVE  /\ UNCHANGED workerVars
         /\ \/ UNCHANGED tableVars
            \/ /\ upload[d] = "insert"
               /\ status' = [status EXCEPT ![d] = "pending"]
               /\ UNCHANGED deleted
            \/ /\ Live(d)
               /\ deleted' = deleted \cup {d}
               /\ UNCHANGED status
<1>1. CASE InsertRow(d) /\ UNCHANGED <<cancelled, workerVars, injected>>
  BY <1>1 DEF InsertRow, Advance, CreateDocument, tableVars
<1>2. CASE Delete(d) /\ UNCHANGED <<cancelled, workerVars, injected>>
  BY <1>2 DEF Delete, SoftDeleteDocument
<1>. QED  BY <1>1, <1>2 DEF Request, Create, Reject, PutObject, Compensate, EnqueueJob, Abort, HangUp

LEMMA OtherOnRows ==
  ASSUME (\E d \in Documents : Reenqueue(d)) \/ PushMalformed \/ UNCHANGED vars
  PROVE  UNCHANGED <<tableVars, workerVars, stored, upload>>
BY DEF Reenqueue, PushMalformed, Inject, vars, tableVars, workerVars

-----------------------------------------------------------------------------
(* A step of a worker keeps the documents exclusive and their rows         *)
(* "processing": only an unheld document can be won, and only its holder   *)
(* moves the row of a held one.                                            *)
LEMMA WorkHolders ==
  ASSUME TypeOK, ExclusiveClaim, HolderOwnsRow, NEW w \in Workers,
         Work(w) \/ Crash(w) \/ Terminate(w) \/ Restart(w)
  PROVE  ExclusiveClaim' /\ HolderOwnsRow'
<1>1. OthersKeep(w)
  BY WorkOthers, FaultOnRows
<1>2. CASE KeepsRows(w)
  <2>1. \A v \in Workers, d \in Documents : Holds(v, d)' => Holds(v, d)
    BY <1>1, <1>2 DEF KeepsRows, OthersKeep
  <2>. QED  BY <1>2, <2>1 DEF ExclusiveClaim, HolderOwnsRow, KeepsRows, tableVars
<1>3. ASSUME NEW d \in Documents, WinsRow(w, d)
      PROVE  ExclusiveClaim' /\ HolderOwnsRow'
  <2>1. \A v \in Workers : ~Holds(v, d)
    BY <1>3 DEF WinsRow, Claimable, HolderOwnsRow
  <2>2. \A v \in Workers, e \in Documents : Holds(v, e)' => Holds(v, e) \/ (v = w /\ e = d)
    BY <1>1, <1>3 DEF OthersKeep, WinsRow
  <2>. QED  BY <1>3, <2>1, <2>2 DEF ExclusiveClaim, HolderOwnsRow, WinsRow, TypeOK, TableTypeOK
<1>4. ASSUME NEW d \in Documents, NEW result \in {"ready", "failed"}, EndsRow(w, d, result)
      PROVE  ExclusiveClaim' /\ HolderOwnsRow'
  <2>1. \A v \in Workers, e \in Documents : Holds(v, e)' => Holds(v, e) /\ v # w /\ e # d
    BY <1>1, <1>4 DEF OthersKeep, EndsRow, ExclusiveClaim
  <2>. QED  BY <1>4, <2>1 DEF ExclusiveClaim, HolderOwnsRow, EndsRow, TypeOK, TableTypeOK
<1>. QED  BY <1>2, <1>3, <1>4, WorkOnRows, FaultOnRows

LEMMA HolderStep ==
  ASSUME TypeOK, ExclusiveClaim, HolderOwnsRow, UploadOrder, [Next]_vars
  PROVE  ExclusiveClaim' /\ HolderOwnsRow'
<1>1. ASSUME NEW w \in Workers, Work(w) \/ Crash(w) \/ Terminate(w) \/ Restart(w)
      PROVE  ExclusiveClaim' /\ HolderOwnsRow'
  BY <1>1, WorkHolders
<1>2. ASSUME NEW d \in Documents, Request(d)
      PROVE  ExclusiveClaim' /\ HolderOwnsRow'
  <2>1. \A w \in Workers, e \in Documents : Holds(w, e)' <=> Holds(w, e)
    BY <1>2, RequestOnRows DEF workerVars, Holds
  <2>2. \A e \in Documents : status[e] # "none" => status'[e] = status[e]
    BY <1>2, RequestOnRows DEF UploadOrder, TypeOK, TableTypeOK, tableVars
  <2>. QED  BY <2>1, <2>2 DEF ExclusiveClaim, HolderOwnsRow
<1>3. CASE UNCHANGED <<tableVars, workerVars, stored, upload>>
  BY <1>3 DEF ExclusiveClaim, HolderOwnsRow, Holds, tableVars, workerVars
<1>. QED  BY <1>1, <1>2, <1>3, OtherOnRows DEF Next

(* A step of a worker touches neither requests nor objects, and no row     *)
(* that does not exist.                                                    *)
LEMMA WorkRows ==
  ASSUME TypeOK, NEW w \in Workers, Work(w) \/ Crash(w) \/ Terminate(w) \/ Restart(w)
  PROVE  /\ UNCHANGED <<stored, upload, deleted>>
         /\ \A d \in Documents : (status'[d] = "none") <=> (status[d] = "none")
<1>1. UNCHANGED <<stored, upload>>
  BY DEF Work, WorkerStep, CheckContext, Consume, Discard, Load, Claim, Read, MarkReady,
         MarkFailed, Ack, RetryRemove, RetryPush, Crash, Terminate, Restart
<1>2. UNCHANGED deleted /\ \A d \in Documents : (status'[d] = "none") <=> (status[d] = "none")
  BY WorkOnRows, FaultOnRows
     DEF KeepsRows, WinsRow, EndsRow, Claimable, Markable, tableVars, TypeOK, TableTypeOK
<1>. QED  BY <1>1, <1>2

(* Objects, rows and requests stay in order through every step.            *)
LEMMA UploadStep ==
  ASSUME TypeOK, UploadOrder, RowHasObject, [Next]_vars
  PROVE  UploadOrder' /\ RowHasObject'
<1>. USE DEF UploadOrder, RowHasObject
<1>1. ASSUME NEW w \in Workers, Work(w) \/ Crash(w) \/ Terminate(w) \/ Restart(w)
      PROVE  UploadOrder' /\ RowHasObject'
  BY <1>1, WorkRows
<1>2. ASSUME NEW d \in Documents, Request(d)
      PROVE  UploadOrder' /\ RowHasObject'
  <2>. USE DEF TypeOK, TableTypeOK, UploadTypeOK, StorageTypeOK, tableVars, Advance
  <2>1. CASE Reject(d)
    BY <2>1 DEF Reject
  <2>2. CASE PutObject(d)
    BY <2>2 DEF PutObject, Put, Replies, Applied
  <2>3. CASE InsertRow(d)
    BY <2>3 DEF InsertRow, CreateDocument
  <2>4. CASE Compensate(d)
    BY <2>4 DEF Compensate, DeleteObject
  <2>5. CASE EnqueueJob(d)
    BY <2>5 DEF EnqueueJob
  <2>6. CASE Delete(d)
    BY <2>6 DEF Delete, SoftDeleteDocument, Live
  <2>7. CASE Abort(d)
    BY <2>7 DEF Abort, InFlight
  <2>8. CASE HangUp(d)
    BY <2>8 DEF HangUp
  <2>. QED  BY <1>2, <2>1, <2>2, <2>3, <2>4, <2>5, <2>6, <2>7, <2>8 DEF Request, Create
<1>3. CASE UNCHANGED <<tableVars, workerVars, stored, upload>>
  BY <1>3 DEF tableVars
<1>. QED  BY <1>1, <1>2, <1>3, OtherOnRows DEF Next

(* IInv is inductive.                                                      *)
LEMMA InvInit == Init => IInv
<1>. SUFFICES ASSUME Init PROVE IInv
  OBVIOUS
<1>. QED  BY TypeInit DEF Init, IInv, ExclusiveClaim, HolderOwnsRow, UploadOrder, RowHasObject,
             Holds, TableInit, StorageInit, UploadInit, WorkerInit

LEMMA InvStep == IInv /\ [Next]_vars => IInv'
<1>. SUFFICES ASSUME IInv, [Next]_vars PROVE IInv'
  OBVIOUS
<1>. QED  BY TypeStep, HolderStep, UploadStep DEF IInv

THEOREM Invariance == Spec => []IInv
BY InvInit, InvStep, PTL DEF Spec

(* No two workers ever process one document, with any number of duplicate  *)
(* jobs, lost replies, crashes and restarts (document_worker.go:35-41).    *)
THEOREM MutualExclusion == Spec => []ExclusiveClaim
<1>1. IInv => ExclusiveClaim
  BY DEF IInv
<1>. QED  BY <1>1, Invariance, PTL

(* A row whose request did not fail has its object.                        *)
THEOREM NoDanglingRow == Spec => []RowHasObject
<1>1. IInv => RowHasObject
  BY DEF IInv
<1>. QED  BY <1>1, Invariance, PTL

(* NoDanglingRow leaves out the requests that failed.  What it leaves out  *)
(* needs a lost reply, which sends a request to compensate although its    *)
(* row is there.                                                           *)
EveryRowHasObject == \A d \in Documents : status[d] # "none" => d \in stored

CompensatedHasNoRow == \A d \in Documents : upload[d] = "compensate" => status[d] = "none"

LEMMA RequestTakesNoObject ==
  ASSUME "database" \notin Losing, TypeOK, UploadOrder, EveryRowHasObject, CompensatedHasNoRow,
         NEW d \in Documents, Request(d)
  PROVE  EveryRowHasObject' /\ CompensatedHasNoRow'
<1>. USE DEF EveryRowHasObject, CompensatedHasNoRow, UploadOrder, TypeOK, TableTypeOK,
         UploadTypeOK, StorageTypeOK, tableVars, Advance
<1>1. CASE Reject(d)
  BY <1>1 DEF Reject
<1>2. CASE PutObject(d)
  BY <1>2 DEF PutObject, Put
<1>3. CASE InsertRow(d)
  <2>1. Replies(d, "database") \subseteq {"ok", "refused"}
    BY DEF Replies
  <2>. QED  BY <1>3, <2>1 DEF InsertRow, CreateDocument, Applied
<1>4. CASE Compensate(d)
  BY <1>4 DEF Compensate, DeleteObject
<1>5. CASE EnqueueJob(d) \/ Delete(d) \/ HangUp(d)
  BY <1>5 DEF EnqueueJob, Delete, SoftDeleteDocument, Live, HangUp
<1>6. CASE Abort(d)
  BY <1>6 DEF Abort
<1>. QED  BY <1>1, <1>2, <1>3, <1>4, <1>5, <1>6 DEF Request, Create

(* Only the compensation of an upload takes an object away, so an object   *)
(* of a row can go only if the row was inserted and its request told that  *)
(* it was not: while no reply of PostgreSQL is lost, every row has its     *)
(* object (document_service.go:68-79).                                     *)
THEOREM RowsKeepObjects == "database" \notin Losing => (Spec => []EveryRowHasObject)
<1>. SUFFICES ASSUME "database" \notin Losing PROVE Spec => []EveryRowHasObject
  OBVIOUS
<1>1. Init => EveryRowHasObject /\ CompensatedHasNoRow
  BY DEF Init, TableInit, EveryRowHasObject, CompensatedHasNoRow
<1>2. IInv /\ EveryRowHasObject /\ CompensatedHasNoRow /\ [Next]_vars
        => EveryRowHasObject' /\ CompensatedHasNoRow'
  <2>. SUFFICES ASSUME IInv, EveryRowHasObject, CompensatedHasNoRow, [Next]_vars
               PROVE  EveryRowHasObject' /\ CompensatedHasNoRow'
    OBVIOUS
  <2>1. ASSUME NEW w \in Workers, Work(w) \/ Crash(w) \/ Terminate(w) \/ Restart(w)
        PROVE  EveryRowHasObject' /\ CompensatedHasNoRow'
    BY <2>1, WorkRows DEF IInv, EveryRowHasObject, CompensatedHasNoRow
  <2>2. CASE UNCHANGED <<tableVars, workerVars, stored, upload>>
    BY <2>2 DEF EveryRowHasObject, CompensatedHasNoRow, tableVars
  <2>. QED  BY <2>1, <2>2, RequestTakesNoObject, OtherOnRows DEF Next, IInv
<1>. QED  BY <1>1, <1>2, Invariance, PTL DEF Spec

(* The status of a ready or deleted document never changes again.          *)
THEOREM SettledStays == Spec => SettledIsFinal
<1>. DEFINE Settled == \A d \in Documents :
       status[d] = "ready" \/ d \in deleted => status'[d] = status[d]
<1>1. IInv /\ [Next]_vars => [Settled]_vars
  <2>. SUFFICES ASSUME IInv, [Next]_vars PROVE Settled
    OBVIOUS
  <2>. USE DEF IInv, TypeOK, TableTypeOK, tableVars
  <2>1. ASSUME NEW w \in Workers, Work(w) \/ Crash(w) \/ Terminate(w) \/ Restart(w)
        PROVE  Settled
    <3>1. TypeOK
      OBVIOUS
    <3>2. \/ KeepsRows(w)
          \/ \E d \in Documents : WinsRow(w, d)
          \/ \E d \in Documents, result \in {"ready", "failed"} : EndsRow(w, d, result)
      BY <2>1, <3>1, WorkOnRows, FaultOnRows
    <3>. QED  BY <3>2 DEF KeepsRows, WinsRow, EndsRow, Claimable, Markable
  <2>2. ASSUME NEW d \in Documents, Request(d)
        PROVE  Settled
    BY <2>2, RequestOnRows DEF UploadOrder
  <2>3. CASE UNCHANGED <<tableVars, workerVars, stored, upload>>
    BY <2>3
  <2>. QED  BY <2>1, <2>2, <2>3, OtherOnRows DEF Next
<1>. QED  BY <1>1, Invariance, PTL DEF SettledIsFinal, Spec

-----------------------------------------------------------------------------
(* The workers busy with a payload can be counted.                         *)
LEMMA BusyFinite ==
  ASSUME NEW payload
  PROVE  IsFiniteSet(Busy(payload)) /\ Cardinality(Busy(payload)) \in Nat
BY WorkersAssumption, FS_Subset, FS_CardinalityType DEF Busy

(* A step that makes nobody busy and leaves the processing list alone, or  *)
(* that takes a copy out with one worker, or puts one in with one worker,  *)
(* keeps the busy workers backed.                                          *)
LEMMA NobodyNewIsBacked ==
  ASSUME TypeOK, ClaimsAreBacked, UNCHANGED processing,
         \A payload \in Payload : Busy(payload)' \subseteq Busy(payload)
  PROVE  ClaimsAreBacked'
<1>. SUFFICES ASSUME NEW payload \in Payload
             PROVE  Cardinality(Busy(payload)') <= processing'[payload]
  BY DEF ClaimsAreBacked
<1>1. IsFiniteSet(Busy(payload)) /\ Cardinality(Busy(payload)) \in Nat
  BY BusyFinite
<1>2. Cardinality(Busy(payload)') <= Cardinality(Busy(payload))
  BY <1>1, FS_Subset
<1>3. Cardinality(Busy(payload)') \in Nat
  BY <1>1, FS_Subset, FS_CardinalityType
<1>. QED  BY <1>1, <1>2, <1>3 DEF ClaimsAreBacked, TypeOK, QueueTypeOK

LEMMA ReleaseIsBacked ==
  ASSUME TypeOK, ClaimsAreBacked, NEW w \in Workers, pc[w] \in Backed,
         NEW reply, RemoveFromProcessing(claim[w], reply),
         OthersKeep(w), pc'[w] \notin Backed
  PROVE  ClaimsAreBacked'
<1>. SUFFICES ASSUME NEW payload \in Payload
             PROVE  Cardinality(Busy(payload)') <= processing'[payload]
  BY DEF ClaimsAreBacked
<1>1. IsFiniteSet(Busy(payload)) /\ Cardinality(Busy(payload)) \in Nat
  BY BusyFinite
<1>2. Busy(payload)' = Busy(payload) \ {w}
  BY DEF Busy, OthersKeep
<1>3. IsFiniteSet(Busy(payload)') /\ Cardinality(Busy(payload)') \in Nat
  BY <1>1, <1>2, FS_Subset, FS_CardinalityType
<1>4. processing \in [Payload -> Nat] /\ Cardinality(Busy(payload)) <= processing[payload]
  BY DEF TypeOK, QueueTypeOK, ClaimsAreBacked
<1>5. CASE payload = claim[w]
  <2>1. w \in Busy(payload)
    BY <1>5 DEF Busy
  <2>2. Cardinality(Busy(payload)') = Cardinality(Busy(payload)) - 1
    BY <1>1, <1>2, <2>1, FS_RemoveElement
  <2>3. processing'[payload] >= processing[payload] - 1
    BY <1>4, <1>5 DEF RemoveFromProcessing, LRem
  <2>4. processing'[payload] \in Nat
    BY <1>4, <1>5 DEF RemoveFromProcessing, LRem
  <2>. QED  BY <1>1, <1>4, <2>2, <2>3, <2>4
<1>6. CASE payload # claim[w]
  <2>1. Busy(payload)' = Busy(payload)
    BY <1>2, <1>6 DEF Busy
  <2>2. processing'[payload] = processing[payload]
    BY <1>4, <1>6 DEF RemoveFromProcessing, LRem
  <2>. QED  BY <1>4, <2>1, <2>2
<1>. QED  BY <1>5, <1>6

LEMMA ConsumeIsBacked ==
  ASSUME TypeOK, ClaimsAreBacked, NEW w \in Workers, Work(w), Consume(w)
  PROVE  ClaimsAreBacked'
<1>0. OthersKeep(w)
  BY WorkOthers
<1>1. PICK reply : /\ MoveToProcessing(reply)
                   /\ reply # "ok" => pc'[w] = "stopped"
                   /\ reply = "ok" => claim'[w] = Head(main) /\ pc'[w] \in {"discard", "load"}
  BY DEF Consume, Leave, TypeOK, WorkerTypeOK
<1>2. pc[w] = "consume" /\ w \notin UNION {Busy(payload) : payload \in Payload}
  BY DEF Consume, Busy, Backed
<1>. SUFFICES ASSUME NEW payload \in Payload
             PROVE  Cardinality(Busy(payload)') <= processing'[payload]
  BY DEF ClaimsAreBacked
<1>3. IsFiniteSet(Busy(payload)) /\ Cardinality(Busy(payload)) \in Nat
  BY BusyFinite
<1>4. /\ processing \in [Payload -> Nat]
      /\ Cardinality(Busy(payload)) <= processing[payload]
      /\ QueueTypeOK
  BY DEF TypeOK, QueueTypeOK, ClaimsAreBacked
<1>5. CASE reply = "ok" /\ Head(main) = payload
  <2>1. Busy(payload)' = Busy(payload) \cup {w}
    BY <1>0, <1>1, <1>5 DEF Busy, OthersKeep, Backed
  <2>2. Cardinality(Busy(payload)') = Cardinality(Busy(payload)) + 1
    BY <1>2, <1>3, <2>1, FS_AddElement DEF Busy
  <2>3. processing'[payload] = processing[payload] + 1
    BY <1>1, <1>4, <1>5 DEF MoveToProcessing, Applied
  <2>. QED  BY <1>3, <1>4, <2>2, <2>3
<1>6. CASE ~(reply = "ok" /\ Head(main) = payload)
  <2>1. Busy(payload)' = Busy(payload)
    BY <1>0, <1>1, <1>2, <1>6 DEF Busy, OthersKeep, Backed
  <2>2. processing'[payload] \in Nat /\ processing'[payload] >= processing[payload]
    BY <1>1, <1>4, MoveType DEF MoveToProcessing, Applied, queueVars, QueueTypeOK
  <2>. QED  BY <1>3, <1>4, <2>1, <2>2
<1>. QED  BY <1>5, <1>6

LEMMA BackedStep == IInv /\ ClaimsAreBacked /\ [Next]_vars => ClaimsAreBacked'
<1>. SUFFICES ASSUME TypeOK, ClaimsAreBacked, [Next]_vars PROVE ClaimsAreBacked'
  BY DEF IInv
<1>1. ASSUME NEW w \in Workers, Work(w)
      PROVE  ClaimsAreBacked'
  <2>1. OthersKeep(w)
    BY <1>1, WorkOthers
  <2>2. CASE Consume(w)
    BY <1>1, <2>2, ConsumeIsBacked
  <2>3. CASE Discard(w) \/ Ack(w) \/ RetryRemove(w)
    <3>1. PICK reply : RemoveFromProcessing(claim[w], reply)
      BY <2>3 DEF Discard, Ack, RetryRemove
    <3>2. pc[w] \in Backed /\ pc'[w] \notin Backed
      BY <2>3 DEF Discard, Ack, RetryRemove, Goto, Leave, Backed, TypeOK, WorkerTypeOK
    <3>. QED  BY <2>1, <3>1, <3>2, ReleaseIsBacked
  <2>4. CASE CheckContext(w) \/ Load(w) \/ Claim(w) \/ Read(w) \/ MarkReady(w)
             \/ MarkFailed(w) \/ RetryPush(w)
    <3>1. UNCHANGED processing
      BY <2>4 DEF CheckContext, Load, Claim, Read, MarkReady, MarkFailed, RetryPush,
                  PushRetry, queueVars
    <3>2. pc[w] \notin Backed => pc'[w] \notin Backed
      BY <2>4 DEF CheckContext, Load, Claim, Read, MarkReady, MarkFailed, RetryPush,
                  Goto, Leave, Backed, TypeOK, WorkerTypeOK
    <3>3. pc'[w] \in Backed => claim'[w] = claim[w]
      BY <2>4 DEF CheckContext, Load, Claim, Read, MarkReady, MarkFailed, RetryPush,
                  Goto, Leave, Backed, TypeOK, WorkerTypeOK
    <3>4. \A payload \in Payload : Busy(payload)' \subseteq Busy(payload)
      BY <2>1, <3>2, <3>3 DEF Busy, OthersKeep
    <3>. QED  BY <3>1, <3>4, NobodyNewIsBacked
  <2>. QED  BY <1>1, <2>2, <2>3, <2>4 DEF Work, WorkerStep
<1>2. ASSUME NEW w \in Workers, Crash(w) \/ Terminate(w) \/ Restart(w)
      PROVE  ClaimsAreBacked'
  <2>1. UNCHANGED processing
    BY <1>2 DEF Crash, Terminate, Restart, queueVars
  <2>2. \A payload \in Payload : Busy(payload)' \subseteq Busy(payload)
    BY <1>2 DEF Crash, Terminate, Restart, Goto, Leave, Busy, Backed, TypeOK, WorkerTypeOK,
                workerVars
  <2>. QED  BY <2>1, <2>2, NobodyNewIsBacked
<1>3. CASE UNCHANGED <<processing, workerVars>>
  BY <1>3, NobodyNewIsBacked DEF Busy, workerVars
<1>4. ASSUME NEW d \in Documents, Request(d)
      PROVE  UNCHANGED <<processing, workerVars>>
  BY <1>4 DEF Request, Create, Reject, PutObject, InsertRow, Compensate, EnqueueJob, Enqueue,
              Delete, Abort, HangUp, queueVars
<1>5. (\E d \in Documents : Reenqueue(d)) \/ PushMalformed \/ UNCHANGED vars
        => UNCHANGED <<processing, workerVars>>
  BY DEF Reenqueue, PushMalformed, Inject, vars, workerVars
<1>. QED  BY <1>1, <1>2, <1>3, <1>4, <1>5 DEF Next

(* Whatever fails, a worker that is busy has its own copy of the payload   *)
(* in the processing list: Ack and Retry never take another worker's       *)
(* (queue/redis.go:79-101, 112).                                           *)
THEOREM Backing == Spec => []ClaimsAreBacked
<1>1. Init => ClaimsAreBacked
  <2>. SUFFICES ASSUME Init, NEW payload \in Payload
               PROVE  Cardinality(Busy(payload)) <= processing[payload]
    BY DEF ClaimsAreBacked
  <2>1. Busy(payload) = {}
    BY DEF Init, WorkerInit, Busy, Backed
  <2>. QED  BY <2>1, FS_EmptySet DEF Init, QueueInit
<1>. QED  BY <1>1, Invariance, BackedStep, PTL DEF Spec

-----------------------------------------------------------------------------
(* The refinement.  Owner is what it is meant to be.                       *)
LEMMA OwnerIs ==
  ASSUME NEW d \in Documents
  PROVE  /\ \A w \in Workers : ExclusiveClaim /\ Holds(w, d) => Owner[d] = w
         /\ (\A w \in Workers : ~Holds(w, d)) => Owner[d] = NoJob
         /\ Owner = [e \in Documents |-> Owner[e]]
BY DEF Owner, ExclusiveClaim

LEMMA OwnerIsNext ==
  ASSUME NEW d \in Documents
  PROVE  /\ \A w \in Workers : ExclusiveClaim' /\ Holds(w, d)' => Owner'[d] = w
         /\ (\A w \in Workers : ~Holds(w, d)') => Owner'[d] = NoJob
         /\ Owner' = [e \in Documents |-> Owner'[e]]
BY DEF Owner, ExclusiveClaim

(* A document held by the same worker as before, or by none as before, has *)
(* the owner it had.                                                       *)
LEMMA OwnerKept ==
  ASSUME ExclusiveClaim, ExclusiveClaim', NEW d \in Documents,
         \A v \in Workers : Holds(v, d)' <=> Holds(v, d)
  PROVE  Owner'[d] = Owner[d]
BY OwnerIs, OwnerIsNext

(* A step that leaves the rows alone and in which at most worker w lets go *)
(* of a document is a stutter, or the worker gives the document up.        *)
LEMMA KeepingImplements ==
  ASSUME IInv, IInv', NEW w \in Workers, KeepsRows(w), OthersKeep(w)
  PROVE  [Lifecycle!Next]_(Lifecycle!vars)
<1>. ExclusiveClaim /\ ExclusiveClaim'
  BY DEF IInv
<1>1. CASE \A d \in Documents : Holds(w, d)' <=> Holds(w, d)
  <2>1. \A d \in Documents : Owner'[d] = Owner[d]
    BY <1>1, OwnerKept DEF OthersKeep
  <2>2. Owner' = Owner
    BY <2>1, OwnerIs, OwnerIsNext DEF Owner
  <2>. QED  BY <2>2 DEF Lifecycle!vars, KeepsRows, tableVars
<1>2. ASSUME NEW d \in Documents, Holds(w, d), ~Holds(w, d)'
      PROVE  Lifecycle!GiveUp(d)
  <2>1. \A v \in Workers : ~Holds(v, d)'
    BY <1>2 DEF ExclusiveClaim, OthersKeep
  <2>2. Owner[d] = w /\ Owner'[d] = NoJob
    BY <1>2, <2>1, OwnerIs, OwnerIsNext
  <2>3. \A e \in Documents \ {d} : ~Holds(w, e) /\ ~Holds(w, e)'
    BY <1>2 DEF KeepsRows, Holds
  <2>4. \A e \in Documents \ {d} : Owner'[e] = Owner[e]
    BY <2>3, OwnerKept DEF OthersKeep
  <2>5. Owner' = [Owner EXCEPT ![d] = NoJob]
    BY <2>2, <2>4 DEF Owner
  <2>. QED  BY <2>2, <2>5, WorkersAssumption DEF Lifecycle!GiveUp, KeepsRows, tableVars
<1>. QED  BY <1>1, <1>2 DEF Lifecycle!Next, KeepsRows

LEMMA WinningImplements ==
  ASSUME IInv, IInv', NEW w \in Workers, NEW d \in Documents,
         WinsRow(w, d), OthersKeep(w)
  PROVE  Lifecycle!Next
<1>. ExclusiveClaim /\ ExclusiveClaim' /\ HolderOwnsRow
  BY DEF IInv
<1>1. \A v \in Workers : ~Holds(v, d)
  BY DEF WinsRow, Claimable, HolderOwnsRow
<1>2. Owner[d] = NoJob
  BY <1>1, OwnerIs
<1>3. \A e \in Documents \ {d} : Owner'[e] = Owner[e]
  <2>1. \A e \in Documents \ {d} : ~Holds(w, e) /\ ~Holds(w, e)'
    BY DEF WinsRow
  <2>. QED  BY <2>1, OwnerKept DEF OthersKeep
<1>4. Owner'[d] = w \/ Owner'[d] = NoJob
  <2>1. CASE Holds(w, d)'
    BY <2>1, OwnerIsNext
  <2>2. CASE ~Holds(w, d)'
    BY <1>1, <2>2, OwnerIsNext DEF OthersKeep
  <2>. QED  BY <2>1, <2>2
<1>5. \E v \in Workers \cup {NoJob} : Owner' = [Owner EXCEPT ![d] = v]
  BY <1>3, <1>4 DEF Owner
<1>6. \E v \in Workers \cup {NoJob} : Lifecycle!Claim(d, v)
  BY <1>2, <1>5 DEF Lifecycle!Claim, WinsRow, Claimable
<1>. QED  BY <1>6 DEF Lifecycle!Next

LEMMA EndingImplements ==
  ASSUME IInv, IInv', NEW w \in Workers, NEW d \in Documents,
         NEW result \in {"ready", "failed"}, EndsRow(w, d, result), OthersKeep(w)
  PROVE  Lifecycle!Next
<1>. ExclusiveClaim /\ ExclusiveClaim'
  BY DEF IInv
<1>1. Owner[d] = w
  BY OwnerIs DEF EndsRow
<1>2. Owner'[d] = NoJob
  <2>1. \A v \in Workers : ~Holds(v, d)'
    BY DEF EndsRow, ExclusiveClaim, OthersKeep
  <2>. QED  BY <2>1, OwnerIsNext
<1>3. \A e \in Documents \ {d} : Owner'[e] = Owner[e]
  <2>1. \A e \in Documents \ {d} : ~Holds(w, e) /\ ~Holds(w, e)'
    BY DEF EndsRow, Holds
  <2>. QED  BY <2>1, OwnerKept DEF OthersKeep
<1>4. Owner' = [Owner EXCEPT ![d] = NoJob]
  BY <1>2, <1>3 DEF Owner
<1>5. Lifecycle!Finish(d, result)
  BY <1>1, <1>4, WorkersAssumption DEF Lifecycle!Finish, EndsRow, Markable
<1>. QED  BY <1>5 DEF Lifecycle!Next

LEMMA StepImplements ==
  ASSUME IInv, IInv', [Next]_vars
  PROVE  [Lifecycle!Next]_(Lifecycle!vars)
<1>0. TypeOK /\ UploadOrder
  BY DEF IInv
<1>1. ASSUME NEW w \in Workers, Work(w) \/ Crash(w) \/ Terminate(w) \/ Restart(w)
      PROVE  [Lifecycle!Next]_(Lifecycle!vars)
  <2>1. OthersKeep(w)
    BY <1>0, <1>1, WorkOthers, FaultOnRows
  <2>2. \/ KeepsRows(w)
        \/ \E d \in Documents : WinsRow(w, d)
        \/ \E d \in Documents, result \in {"ready", "failed"} : EndsRow(w, d, result)
    BY <1>0, <1>1, WorkOnRows, FaultOnRows
  <2>. QED  BY <2>1, <2>2, KeepingImplements, WinningImplements, EndingImplements
<1>2. UNCHANGED workerVars => Owner' = Owner
  BY DEF Owner, Holds, workerVars
<1>3. ASSUME NEW d \in Documents, Request(d)
      PROVE  [Lifecycle!Next]_(Lifecycle!vars)
  <2>1. Owner' = Owner
    BY <1>0, <1>2, <1>3, RequestOnRows
  <2>2. CASE UNCHANGED tableVars
    BY <2>1, <2>2 DEF Lifecycle!vars, tableVars
  <2>3. CASE /\ upload[d] = "insert"
             /\ status' = [status EXCEPT ![d] = "pending"]
             /\ UNCHANGED deleted
    BY <1>0, <2>1, <2>3 DEF UploadOrder, Lifecycle!Next, Lifecycle!Insert
  <2>4. CASE Live(d) /\ deleted' = deleted \cup {d} /\ UNCHANGED status
    BY <2>1, <2>4 DEF Live, Lifecycle!Next, Lifecycle!Delete
  <2>. QED  BY <1>0, <1>3, <2>2, <2>3, <2>4, RequestOnRows
<1>4. CASE UNCHANGED <<tableVars, workerVars, stored, upload>>
  BY <1>2, <1>4 DEF Lifecycle!vars, tableVars
<1>. QED  BY <1>1, <1>3, <1>4, OtherOnRows DEF Next

LEMMA InitImplements == Init => Lifecycle!Init
BY DEF Init, TableInit, WorkerInit, Owner, Holds, Lifecycle!Init

(* The pipeline implements the lifecycle of a document, for any documents, *)
(* workers and faults (document_worker.go:27-56, documents.sql:29-40).     *)
THEOREM Implementation == Spec => LifecycleImplemented
<1>1. IInv /\ IInv' /\ [Next]_vars => [Lifecycle!Next]_(Lifecycle!vars)
  BY StepImplements
<1>. QED  BY <1>1, InitImplements, Invariance, PTL DEF Spec, LifecycleImplemented, Lifecycle!Spec
=============================================================================
