--------------------------- MODULE DeliveryProofs ---------------------------
(***************************************************************************)
(* That no job is lost, for any documents, workers and number of attempts: *)
(* while calls to Redis succeed and no process dies or is told to stop,    *)
(* the processing list is what the workers are busy with; and while        *)
(* PostgreSQL answers as well, an accepted document that is unfinished has *)
(* a job.                                                                  *)
(*                                                                         *)
(* The second is not inductive.  A worker that finds a document processed  *)
(* by another acknowledges its own job, so another one has to be there     *)
(* (HolderExists), and the copy in the processing list that is about to be *)
(* acknowledged must not count as the last job (JobKept).                  *)
(*                                                                         *)
(* Then come three promises of the documentation that do not hold when     *)
(* everything may fail, each with the faults under which it does.          *)
(*                                                                         *)
(* The rest needs no such premise.  Whatever fails, the three lists are a  *)
(* reliable queue: a worker removes a copy that is there, as it is backed  *)
(* (RemovingReturns); the first command of a retry only changes where the  *)
(* copy is that the worker holds (RemoveFinishes).  And what a failure may *)
(* leave behind is told by the step that leaves it: a stranded payload, an *)
(* orphaned row, a row without a job.                                      *)
(***************************************************************************)
EXTENDS DocumentPipelineProofs

QueueCallsSucceed ==
  /\ "redis" \notin Refusing \cup Losing
  /\ CanStop = FALSE /\ CanCancel = FALSE

OnlyStorageFails == QueueCallsSucceed /\ "database" \notin Refusing \cup Losing

NobodyCancelled == cancelled = {}

HeldInv == IInv /\ NobodyCancelled /\ ProcessingIsHeld

LEMMA QueueReplies ==
  ASSUME QueueCallsSucceed, NobodyCancelled
  PROVE  \A process : Replies(process, "redis") = {"ok"}
  BY DEF QueueCallsSucceed, NobodyCancelled, Replies

LEMMA DatabaseReplies ==
  ASSUME OnlyStorageFails, NobodyCancelled
  PROVE  \A process : Replies(process, "database") = {"ok"}
  BY DEF OnlyStorageFails, NobodyCancelled, Replies

LEMMA CancelledStep ==
  ASSUME QueueCallsSucceed, NobodyCancelled, [Next]_vars
  PROVE  NobodyCancelled'
  BY DEF QueueCallsSucceed, NobodyCancelled, Next, Request, HangUp, Reenqueue, PushMalformed,
       Inject, Work, Crash, Terminate, Restart, vars

-----------------------------------------------------------------------------
(* A step that leaves the processing list and the busy workers alone, or   *)
(* that takes a copy out with a worker, or puts one in with a worker.      *)
LEMMA SameIsHeld ==
  ASSUME ProcessingIsHeld, UNCHANGED processing,
         \A payload \in Payload : Busy(payload)' = Busy(payload)
  PROVE  ProcessingIsHeld'
  BY DEF ProcessingIsHeld

LEMMA ReleaseIsHeld ==
  ASSUME TypeOK, ProcessingIsHeld, NEW w \in Workers, pc[w] \in Backed,
         RemoveFromProcessing(claim[w], "ok"),
         OthersKeep(w), pc'[w] \notin Backed
  PROVE  ProcessingIsHeld'
<1> SUFFICES ASSUME NEW payload \in Payload
             PROVE  processing'[payload] = Cardinality(Busy(payload)')
  BY DEF ProcessingIsHeld
<1>1. IsFiniteSet(Busy(payload)) /\ Cardinality(Busy(payload)) \in Nat
  BY BusyFinite
<1>2. Busy(payload)' = Busy(payload) \ {w}
  BY DEF Busy, OthersKeep
<1>3. processing \in [Payload -> Nat] /\ Cardinality(Busy(payload)) = processing[payload]
  BY DEF TypeOK, QueueTypeOK, ProcessingIsHeld
<1>4. processing' = LRem(claim[w])
  BY DEF RemoveFromProcessing, Applied
<1>5. CASE payload = claim[w]
  <2>1. w \in Busy(payload)
    BY <1>5 DEF Busy
  <2>2. Cardinality(Busy(payload)') = Cardinality(Busy(payload)) - 1
    BY <1>1, <1>2, <2>1, FS_RemoveElement
  <2>3. Cardinality(Busy(payload)') \in Nat
    BY <1>1, <1>2, FS_Subset, FS_CardinalityType
  <2>4. processing'[payload] = processing[payload] - 1
    BY <1>1, <1>3, <1>4, <1>5, <2>2, <2>3 DEF LRem
  <2> QED
    BY <1>3, <2>2, <2>4
<1>6. CASE payload # claim[w]
  <2>1. Busy(payload)' = Busy(payload)
    BY <1>2, <1>6 DEF Busy
  <2>2. processing'[payload] = processing[payload]
    BY <1>3, <1>4, <1>6 DEF LRem
  <2> QED
    BY <1>3, <2>1, <2>2
<1> QED
  BY <1>5, <1>6

LEMMA ConsumeIsHeld ==
  ASSUME TypeOK, ProcessingIsHeld, NEW w \in Workers, OthersKeep(w),
         pc[w] = "consume", MoveToProcessing("ok"),
         claim'[w] = Head(main), pc'[w] \in {"discard", "load"}
  PROVE  ProcessingIsHeld'
<1> SUFFICES ASSUME NEW payload \in Payload
             PROVE  processing'[payload] = Cardinality(Busy(payload)')
  BY DEF ProcessingIsHeld
<1>1. IsFiniteSet(Busy(payload)) /\ Cardinality(Busy(payload)) \in Nat
  BY BusyFinite
<1>2. processing \in [Payload -> Nat] /\ Cardinality(Busy(payload)) = processing[payload]
  BY DEF TypeOK, QueueTypeOK, ProcessingIsHeld
<1>3. w \notin Busy(payload)
  BY DEF Busy, Backed
<1>4. processing' = [processing EXCEPT ![Head(main)] = @ + 1]
  BY DEF MoveToProcessing, Applied
<1>5. CASE Head(main) = payload
  <2>1. Busy(payload)' = Busy(payload) \cup {w}
    BY <1>5 DEF Busy, OthersKeep, Backed
  <2>2. Cardinality(Busy(payload)') = Cardinality(Busy(payload)) + 1
    BY <1>1, <1>3, <2>1, FS_AddElement
  <2> QED
    BY <1>2, <1>4, <1>5, <2>2
<1>6. CASE Head(main) # payload
  <2>1. Busy(payload)' = Busy(payload)
    BY <1>3, <1>6 DEF Busy, OthersKeep, Backed
  <2> QED
    BY <1>2, <1>4, <1>6, <2>1
<1> QED
  BY <1>5, <1>6

LEMMA WorkIsHeld ==
  ASSUME QueueCallsSucceed, HeldInv, NEW w \in Workers, Work(w)
  PROVE  ProcessingIsHeld'
<1> USE DEF HeldInv, IInv
<1>1. OthersKeep(w)
  BY WorkOthers
<1>2. Replies(w, "redis") = {"ok"}
  BY QueueReplies
<1>3. CASE Consume(w)
  <2>1. /\ pc[w] = "consume" /\ MoveToProcessing("ok")
        /\ claim'[w] = Head(main) /\ pc'[w] \in {"discard", "load"}
    BY <1>2, <1>3 DEF Consume, TypeOK, WorkerTypeOK
  <2> QED
    BY <1>1, <2>1, ConsumeIsHeld
<1>4. CASE Discard(w) \/ Ack(w) \/ RetryRemove(w)
  <2>1. RemoveFromProcessing(claim[w], "ok")
    BY <1>2, <1>4 DEF Discard, Ack, RetryRemove
  <2>2. pc[w] \in Backed /\ pc'[w] \notin Backed
    BY <1>4 DEF Discard, Ack, RetryRemove, Goto, Leave, Backed, TypeOK, WorkerTypeOK
  <2> QED
    BY <1>1, <2>1, <2>2, ReleaseIsHeld
<1>5. CASE CheckContext(w) \/ Load(w) \/ Claim(w) \/ Read(w) \/ MarkReady(w)
           \/ MarkFailed(w) \/ RetryPush(w)
  <2>1. UNCHANGED processing
    BY <1>5 DEF CheckContext, Load, Claim, Read, MarkReady, MarkFailed, RetryPush,
                PushRetry, queueVars
  <2>2. pc[w] \in Backed <=> pc'[w] \in Backed
    BY <1>5 DEF CheckContext, Load, Claim, Read, MarkReady, MarkFailed, RetryPush, AfterLoad,
                AfterClaim, Goto, Leave, Backed, TypeOK, WorkerTypeOK
  <2>3. pc'[w] \in Backed => claim'[w] = claim[w]
    BY <1>5 DEF CheckContext, Load, Claim, Read, MarkReady, MarkFailed, RetryPush,
                Goto, Leave, Backed, TypeOK, WorkerTypeOK
  <2>4. \A payload \in Payload : Busy(payload)' = Busy(payload)
    BY <1>1, <2>2, <2>3 DEF Busy, OthersKeep
  <2> QED
    BY <2>1, <2>4, SameIsHeld
<1> QED
  BY <1>3, <1>4, <1>5 DEF Work, WorkerStep

LEMMA HeldStep ==
  ASSUME QueueCallsSucceed, HeldInv, [Next]_vars
  PROVE  HeldInv'
<1>1. IInv' /\ NobodyCancelled'
  BY InvStep, CancelledStep DEF HeldInv
<1>2. ASSUME NEW w \in Workers, Crash(w) \/ Terminate(w) \/ Restart(w)
      PROVE  ProcessingIsHeld'
  <2>1. Restart(w)
    BY <1>2 DEF QueueCallsSucceed, Crash, Terminate
  <2>2. UNCHANGED processing /\ \A payload \in Payload : Busy(payload)' = Busy(payload)
    BY <2>1 DEF HeldInv, IInv, TypeOK, WorkerTypeOK, Restart, Goto, Busy, Backed, queueVars
  <2> QED
    BY <2>2, SameIsHeld DEF HeldInv
<1>3. ASSUME UNCHANGED <<processing, workerVars>> PROVE ProcessingIsHeld'
  <2>1. \A payload \in Payload : Busy(payload)' = Busy(payload)
    BY <1>3 DEF Busy, workerVars
  <2> QED
    BY <1>3, <2>1, SameIsHeld DEF HeldInv
<1>4. ASSUME NEW d \in Documents, Request(d)
      PROVE  UNCHANGED <<processing, workerVars>>
  BY <1>4 DEF Request, Create, Reject, PutObject, InsertRow, Compensate, EnqueueJob, Enqueue,
              Delete, Abort, HangUp, queueVars
<1>5. (\E d \in Documents : Reenqueue(d)) \/ PushMalformed \/ UNCHANGED vars
        => UNCHANGED <<processing, workerVars>>
  BY DEF Reenqueue, PushMalformed, Inject, vars, workerVars
<1>6. ASSUME NEW w \in Workers, Work(w) PROVE ProcessingIsHeld'
  BY <1>6, WorkIsHeld
<1>7. ProcessingIsHeld'
  BY <1>2, <1>3, <1>4, <1>5, <1>6 DEF Next
<1> QED
  BY <1>1, <1>7 DEF HeldInv

LEMMA HeldInit == Init => HeldInv
<1> SUFFICES ASSUME Init PROVE HeldInv
  OBVIOUS
<1>1. IInv /\ NobodyCancelled
  BY InvInit DEF Init, NobodyCancelled
<1>2. ASSUME NEW payload \in Payload PROVE processing[payload] = Cardinality(Busy(payload))
  <2>1. Busy(payload) = {}
    BY DEF Init, WorkerInit, Busy, Backed
  <2> QED
    BY <2>1, FS_EmptySet DEF Init, QueueInit
<1> QED
  BY <1>1, <1>2 DEF HeldInv, ProcessingIsHeld

(* While calls to Redis succeed and no process dies or is told to stop,    *)
(* nothing is left in the processing list but what a worker is busy with   *)
(* (queue/redis.go:49-62).                                                 *)
THEOREM NothingLeftBehind == QueueCallsSucceed => (Spec => []ProcessingIsHeld)
<1> SUFFICES ASSUME QueueCallsSucceed PROVE Spec => []ProcessingIsHeld
  OBVIOUS
<1>1. HeldInv /\ [Next]_vars => HeldInv'
  BY HeldStep
<1>2. HeldInv => ProcessingIsHeld
  BY DEF HeldInv
<1> QED
  BY <1>1, <1>2, HeldInit, PTL DEF Spec
-----------------------------------------------------------------------------
(* A worker has a job of a document that it has not decided to acknowledge.*)
Works(w, d) ==
  /\ pc[w] \in {"load", "claim", "read", "markReady", "markFailed", "remove", "push"}
  /\ claim[w] \in JobsOf(d)

Kept(d) == Queued(d) \/ DeadLettered(d) \/ \E w \in Workers : Works(w, d)

(* A row that is "processing" is so because of a worker that is at it.     *)
HolderExists ==
  \A d \in Documents :
    Live(d) /\ status[d] = "processing" => \E w \in Workers : Holds(w, d)

JobKept ==
  \A d \in Documents : upload[d] = "accepted" /\ Unfinished(d) => Kept(d)

JobInv == IInv /\ NobodyCancelled /\ HolderExists /\ JobKept

LEMMA HolderWorks ==
  ASSUME TypeOK, NEW w \in Workers, NEW d \in Documents, Holds(w, d)
  PROVE  Works(w, d)
  BY DEF TypeOK, WorkerTypeOK, Holds, Works, JobsOf

LEMMA OthersWork ==
  ASSUME NEW w \in Workers, OthersKeep(w), NEW v \in Workers \ {w}, NEW d \in Documents
  PROVE  /\ Works(v, d) => Works(v, d)'
         /\ Holds(v, d) => Holds(v, d)'
  BY DEF OthersKeep, Works

LEMMA AppendKeepsQueued ==
  ASSUME TypeOK, NEW d \in Documents, Queued(d), NEW payload \in Payload,
         main' = Append(main, payload)
  PROVE  Queued(d)'
<1>1. PICK i \in 1 .. Len(main) : main[i] \in JobsOf(d)
  BY DEF TypeOK, QueueTypeOK, Queued
<1>2. i \in DOMAIN main' /\ main'[i] = main[i]
  BY DEF TypeOK, QueueTypeOK
<1> QED
  BY <1>1, <1>2 DEF Queued

LEMMA AppendQueues ==
  ASSUME TypeOK, NEW d \in Documents, NEW payload \in JobsOf(d), main' = Append(main, payload)
  PROVE  Queued(d)'
<1>1. /\ Len(main) + 1 \in DOMAIN main'
      /\ main'[Len(main) + 1] = payload
  BY DEF TypeOK, QueueTypeOK, JobsOf, Payload
<1> QED
  BY <1>1 DEF Queued

(* What becomes of a queued or dead-lettered job in a step of a worker.    *)
LEMMA ConsumeKeeps ==
  ASSUME TypeOK, NEW w \in Workers, NEW d \in Documents, Replies(w, "redis") = {"ok"},
         Consume(w), Queued(d)
  PROVE  Queued(d)' \/ Works(w, d)'
<1>1. /\ main # <<>> /\ main' = Tail(main) /\ claim'[w] = Head(main)
      /\ Head(main) # Malformed => pc'[w] = "load"
  BY DEF Consume, MoveToProcessing, Applied, TypeOK, WorkerTypeOK
<1>2. PICK i \in 1 .. Len(main) : main[i] \in JobsOf(d)
  BY DEF TypeOK, QueueTypeOK, Queued
<1>3. CASE i = 1
  <2>1. Head(main) = main[1]
    BY <1>1 DEF TypeOK, QueueTypeOK
  <2>2. Head(main) \in JobsOf(d) /\ Head(main) # Malformed
    BY <1>2, <1>3, <2>1, MalformedAssumption DEF JobsOf
  <2> QED
    BY <1>1, <2>2 DEF Works, JobsOf
<1>4. CASE i # 1
  <2>1. i - 1 \in DOMAIN main' /\ main'[i - 1] = main[i]
    BY <1>1, <1>4 DEF TypeOK, QueueTypeOK
  <2> QED
    BY <1>2, <2>1 DEF Queued
<1> QED
  BY <1>3, <1>4

LEMMA PushKeeps ==
  ASSUME TypeOK, NEW w \in Workers, NEW d \in Documents, Replies(w, "redis") = {"ok"},
         RetryPush(w)
  PROVE  /\ Queued(d) => Queued(d)'
         /\ DeadLettered(d) => DeadLettered(d)'
         /\ Works(w, d) => Queued(d)' \/ DeadLettered(d)'
<1>1. PushRetry(claim[w], "ok") /\ claim[w] \in Job
  BY DEF RetryPush, TypeOK, WorkerTypeOK
<1>2. CASE Exhausted(claim[w])
  <2>1. main' = main /\ deadLetter' = [deadLetter EXCEPT ![claim[w]] = @ + 1]
    BY <1>1, <1>2 DEF PushRetry, Applied
  <2>2. \A job \in Job : deadLetter[job] > 0 => deadLetter'[job] > 0
    BY <2>1 DEF TypeOK, QueueTypeOK
  <2>3. deadLetter'[claim[w]] > 0
    BY <1>1, <2>1 DEF TypeOK, QueueTypeOK
  <2> QED
    BY <2>1, <2>2, <2>3 DEF Queued, DeadLettered, Works, JobsOf
<1>3. CASE ~Exhausted(claim[w])
  <2>1. main' = Append(main, NextAttempt(claim[w])) /\ deadLetter' = deadLetter
    BY <1>1, <1>3 DEF PushRetry, Applied
  <2>2. NextAttempt(claim[w]) \in Job /\ NextAttempt(claim[w]).document = claim[w].document
    BY <1>1, <1>3, NextAttemptType DEF NextAttempt, Job
  <2>3. Queued(d) => Queued(d)'
    BY <2>1, <2>2, AppendKeepsQueued DEF Payload
  <2>4. Works(w, d) => Queued(d)'
    BY <2>1, <2>2, AppendQueues DEF Works, JobsOf
  <2> QED
    BY <2>1, <2>3, <2>4 DEF DeadLettered
<1> QED
  BY <1>2, <1>3

LEMMA OtherCommandsKeep ==
  ASSUME NEW w \in Workers, NEW d \in Documents, Work(w), ~Consume(w), ~RetryPush(w)
  PROVE  /\ Queued(d) => Queued(d)'
         /\ DeadLettered(d) => DeadLettered(d)'
<1>1. UNCHANGED <<main, deadLetter>>
  BY DEF Work, WorkerStep, CheckContext, Discard, Load, Claim, Read, MarkReady, MarkFailed, Ack,
         RetryRemove, RemoveFromProcessing, queueVars
<1> QED
  BY <1>1 DEF Queued, DeadLettered
(* The rows after a step of a worker: a claim, a marking, or nothing.      *)
LEMMA WorkUnfinished ==
  ASSUME TypeOK, NEW w \in Workers, NEW d \in Documents, Work(w), Unfinished(d)'
  PROVE  Unfinished(d)
  BY WorkOnRows DEF TypeOK, TableTypeOK, KeepsRows, WinsRow, EndsRow, Claimable, Markable,
     Unfinished, Live, tableVars

(* A worker lets go of a job that is not pushed again only if its document *)
(* is finished, or another worker has it.                                  *)
LEMMA WorkerLetsGo ==
  ASSUME OnlyStorageFails, JobInv, NEW w \in Workers, NEW d \in Documents, Work(w), Works(w, d),
         Unfinished(d)'
  PROVE  Kept(d)'
<1> USE DEF JobInv, IInv
<1>1. claim[w] \in Job /\ claim[w].document = d
  BY DEF Works, JobsOf
<1>2. Replies(w, "database") = {"ok"} /\ Replies(w, "redis") = {"ok"}
  BY DatabaseReplies, QueueReplies DEF OnlyStorageFails
<1>3. Unfinished(d)
  BY WorkUnfinished
<1>4. ASSUME claim'[w] = claim[w],
             pc'[w] \in {"load", "claim", "read", "markReady", "markFailed", "remove", "push"}
      PROVE  Kept(d)'
  BY <1>4 DEF Works, Kept, JobsOf
<1>5. CASE Load(w)
  <2>1. pc'[w] = AfterLoad(d, "ok") /\ claim'[w] = claim[w]
    BY <1>1, <1>2, <1>5 DEF Load, Goto, TypeOK, WorkerTypeOK
  <2>2. AfterLoad(d, "ok") \in {"remove", "claim"}
    BY <1>3 DEF AfterLoad, Unfinished
  <2> QED
    BY <1>4, <2>1, <2>2
<1>6. CASE Claim(w)
  <2>1. pc'[w] = AfterClaim(d, "ok") /\ claim'[w] = claim[w]
    BY <1>1, <1>2, <1>6 DEF Claim, Goto, TypeOK, WorkerTypeOK
  <2>2. CASE Claimable(d)
    BY <1>4, <2>1, <2>2 DEF AfterClaim
  <2>3. CASE ~Claimable(d)
    <3>1. Live(d) /\ status[d] = "processing"
      BY <1>3, <2>3 DEF Claimable, Unfinished, Live, TypeOK, TableTypeOK, Status
    <3>2. PICK v \in Workers : Holds(v, d)
      BY <3>1 DEF HolderExists
    <3>3. v # w
      BY <1>6, <3>2 DEF Claim, Holds
    <3>4. Works(v, d)'
      BY <3>2, <3>3, WorkOthers, HolderWorks, OthersWork
    <3> QED
      BY <3>4 DEF Kept
  <2> QED
    BY <2>2, <2>3
<1>7. CASE Read(w)
  <2>1. pc'[w] \in {"markReady", "markFailed"} /\ claim'[w] = claim[w]
    BY <1>7 DEF Read, Goto, TypeOK, WorkerTypeOK
  <2> QED
    BY <1>4, <2>1
<1>8. CASE MarkReady(w)
  <2>1. /\ MarkDocument(d, "ready", "ok") /\ claim'[w] = claim[w]
        /\ pc'[w] = IF Markable(d) THEN "ack" ELSE "remove"
    BY <1>1, <1>2, <1>8 DEF MarkReady, Goto, TypeOK, WorkerTypeOK
  <2>2. ~Markable(d)
    BY <2>1 DEF MarkDocument, Applied, Unfinished, TypeOK, TableTypeOK
  <2> QED
    BY <1>4, <2>1, <2>2
<1>9. CASE MarkFailed(w)
  <2>1. pc'[w] = "remove" /\ claim'[w] = claim[w]
    BY <1>9 DEF MarkFailed, Goto, TypeOK, WorkerTypeOK
  <2> QED
    BY <1>4, <2>1
<1>10. CASE RetryRemove(w)
  <2>1. pc'[w] = "push" /\ claim'[w] = claim[w]
    BY <1>2, <1>10 DEF RetryRemove, Goto, TypeOK, WorkerTypeOK
  <2> QED
    BY <1>4, <2>1
<1>11. CASE RetryPush(w)
  BY <1>2, <1>11, PushKeeps DEF Kept
<1>12. CASE CheckContext(w) \/ Consume(w) \/ Discard(w) \/ Ack(w)
  BY <1>12 DEF CheckContext, Consume, Discard, Ack, Works
<1> QED
  BY <1>5, <1>6, <1>7, <1>8, <1>9, <1>10, <1>11, <1>12 DEF Work, WorkerStep

LEMMA WorkKeepsJobs ==
  ASSUME OnlyStorageFails, JobInv, NEW w \in Workers, Work(w)
  PROVE  JobKept'
<1> SUFFICES ASSUME NEW d \in Documents, upload'[d] = "accepted", Unfinished(d)'
             PROVE  Kept(d)'
  BY DEF JobKept
<1>1. Kept(d)
  BY WorkUnfinished DEF JobInv, IInv, JobKept, Work
<1>2. Replies(w, "redis") = {"ok"}
  BY QueueReplies DEF OnlyStorageFails, JobInv
<1>3. TypeOK
  BY DEF JobInv, IInv
<1>4. CASE Queued(d)
  BY <1>2, <1>3, <1>4, ConsumeKeeps, PushKeeps, OtherCommandsKeep DEF Kept
<1>5. CASE DeadLettered(d)
  <2>1. CASE Consume(w)
    BY <1>5, <2>1 DEF Consume, MoveToProcessing, queueVars, DeadLettered, Kept
  <2> QED
    BY <1>2, <1>3, <1>5, <2>1, PushKeeps, OtherCommandsKeep DEF Kept
<1>6. ASSUME NEW v \in Workers, Works(v, d) PROVE Kept(d)'
  <2>1. CASE v = w
    BY <1>6, <2>1, WorkerLetsGo
  <2>2. CASE v # w
    BY <1>3, <1>6, <2>2, WorkOthers, OthersWork DEF Kept
  <2> QED
    BY <2>1, <2>2
<1> QED
  BY <1>1, <1>4, <1>5, <1>6 DEF Kept

(* A holder that lets go has moved the row on.                             *)
LEMMA WorkKeepsHolder ==
  ASSUME OnlyStorageFails, JobInv, NEW w \in Workers, Work(w)
  PROVE  HolderExists'
<1> USE DEF JobInv, IInv
<1> SUFFICES ASSUME NEW d \in Documents, Live(d)', status'[d] = "processing"
             PROVE  \E v \in Workers : Holds(v, d)'
  BY DEF HolderExists
<1>1. Replies(w, "database") = {"ok"}
  BY DatabaseReplies
<1>2. CASE Claim(w) /\ claim[w].document = d /\ Claimable(d)
  <2>1. pc'[w] = "read" /\ claim'[w] = claim[w]
    BY <1>1, <1>2 DEF Claim, AfterClaim, Goto, TypeOK, WorkerTypeOK
  <2> QED
    BY <1>2, <2>1 DEF Holds
<1>3. CASE ~(Claim(w) /\ claim[w].document = d /\ Claimable(d))
  <2>1. Live(d) /\ status[d] = "processing"
    <3>1. CASE UNCHANGED tableVars
      BY <3>1 DEF Live, tableVars
    <3>2. CASE Claim(w)
      BY <1>3, <3>2 DEF Claim, ClaimDocumentProcessing, Live, TypeOK, TableTypeOK, WorkerTypeOK
    <3>3. CASE MarkReady(w) \/ MarkFailed(w)
      BY <3>3 DEF MarkReady, MarkFailed, MarkDocument, Markable, Live, TypeOK, TableTypeOK
    <3> QED
      BY <3>1, <3>2, <3>3 DEF Work, WorkerStep, CheckContext, Consume, Discard, Load, Read, Ack,
           RetryRemove, RetryPush
  <2>2. PICK v \in Workers : Holds(v, d)
    BY <2>1 DEF HolderExists
  <2>3. CASE v # w
    BY <2>2, <2>3, WorkOthers, OthersWork
  <2>4. CASE v = w
    <3>1. claim[w].document = d /\ Markable(d)
      BY <2>1, <2>2, <2>4 DEF Holds, Markable, Live
    <3>2. CASE Read(w)
      BY <2>2, <2>4, <3>1, <3>2 DEF Read, Goto, Holds, TypeOK, WorkerTypeOK
    <3>3. ~MarkReady(w) /\ ~MarkFailed(w)
      BY <1>1, <3>1 DEF MarkReady, MarkFailed, MarkDocument, Applied, TypeOK, TableTypeOK
    <3> QED
      BY <2>2, <2>4, <3>2, <3>3 DEF Work, WorkerStep, CheckContext, Consume, Discard, Load, Claim,
           Ack, RetryRemove, RetryPush, Holds
  <2> QED
    BY <2>3, <2>4
<1> QED
  BY <1>2, <1>3

(* Requests and the operator leave the workers alone.                      *)
LEMMA RequestKeepsJobs ==
  ASSUME OnlyStorageFails, JobInv, NEW e \in Documents, Request(e)
  PROVE  HolderExists' /\ JobKept'
<1> USE DEF JobInv, IInv
<1>1. UNCHANGED workerVars /\ UNCHANGED deadLetter
  BY RequestOnRows DEF Request, Create, Reject, PutObject, InsertRow, Compensate, EnqueueJob,
     Enqueue, Delete, Abort, HangUp, queueVars
<1>2. Replies(e, "redis") = {"ok"}
  BY QueueReplies DEF OnlyStorageFails
<1>3. HolderExists'
  <2>1. \A d \in Documents : Live(d)' /\ status'[d] = "processing"
                              => Live(d) /\ status[d] = "processing"
    BY RequestOnRows DEF Live, TypeOK, TableTypeOK, tableVars
  <2> QED
    BY <1>1, <2>1 DEF HolderExists, Holds, workerVars
<1>4. ASSUME NEW d \in Documents, upload'[d] = "accepted", Unfinished(d)' PROVE Kept(d)'
  <2>1. CASE EnqueueJob(e)
    <3>1. [document |-> e, attempt |-> 1] \in JobsOf(e)
      BY MaxAttemptsAssumption DEF JobsOf, Job
    <3>2. main' = Append(main, [document |-> e, attempt |-> 1])
      BY <1>2, <2>1 DEF EnqueueJob, Enqueue, Applied
    <3>3. CASE d = e
      BY <3>1, <3>2, <3>3, AppendQueues DEF Kept
    <3>4. CASE d # e
      <4>1. Kept(d)
        BY <1>4, <2>1, <3>4 DEF EnqueueJob, Advance, TypeOK, UploadTypeOK, JobKept, Unfinished,
             Live, tableVars
      <4>2. Queued(d) => Queued(d)'
        BY <3>1, <3>2, AppendKeepsQueued DEF JobsOf, Payload
      <4> QED
        BY <1>1, <4>1, <4>2 DEF Kept, DeadLettered, Works, workerVars
    <3> QED
      BY <3>3, <3>4
  <2>2. CASE ~EnqueueJob(e)
    <3>1. UNCHANGED main
      BY <2>2 DEF Request, Create, Reject, PutObject, InsertRow, Compensate, Delete, Abort,
           HangUp, queueVars
    <3>2. upload[d] = "accepted"
      BY <1>4, <2>2 DEF Request, Create, Reject, PutObject, InsertRow, Compensate, Delete, Abort,
           HangUp, Advance, TypeOK, UploadTypeOK
    <3>3. Unfinished(d)
      BY <1>4, <3>2, RequestOnRows DEF Unfinished, Live, UploadOrder, TypeOK, TableTypeOK,
           UploadTypeOK, tableVars, Request, Create, InsertRow, Advance
    <3> QED
      BY <1>1, <3>1, <3>2, <3>3 DEF JobKept, Kept, Queued, DeadLettered, Works, workerVars
  <2> QED
    BY <2>1, <2>2
<1> QED
  BY <1>3, <1>4 DEF JobKept

LEMMA InjectKeepsJobs ==
  ASSUME JobInv, NEW payload \in Payload, Inject(payload)
  PROVE  HolderExists' /\ JobKept'
<1> USE DEF JobInv, IInv
<1>1. UNCHANGED <<tableVars, workerVars, upload, deadLetter>> /\ main' = Append(main, payload)
  BY DEF Inject
<1>2. \A d \in Documents : Queued(d) => Queued(d)'
  BY <1>1, AppendKeepsQueued
<1> QED
  BY <1>1, <1>2 DEF HolderExists, JobKept, Kept, DeadLettered, Works, Holds, Unfinished, Live,
     tableVars, workerVars

LEMMA JobStep ==
  ASSUME OnlyStorageFails, JobInv, [Next]_vars
  PROVE  JobInv'
<1>1. IInv' /\ NobodyCancelled'
  BY InvStep, CancelledStep DEF JobInv, OnlyStorageFails
<1>2. ASSUME NEW w \in Workers, Work(w) PROVE HolderExists' /\ JobKept'
  BY <1>2, WorkKeepsJobs, WorkKeepsHolder
<1>3. ASSUME NEW w \in Workers, Crash(w) \/ Terminate(w) \/ Restart(w)
      PROVE  HolderExists' /\ JobKept'
  <2>1. Restart(w)
    BY <1>3 DEF OnlyStorageFails, QueueCallsSucceed, Crash, Terminate
  <2>2. \A v \in Workers, d \in Documents : /\ Works(v, d) => Works(v, d)'
                                            /\ Holds(v, d) => Holds(v, d)'
    BY <2>1 DEF Restart, Goto, Works, Holds, JobInv, IInv, TypeOK, WorkerTypeOK
  <2> QED
    BY <2>1, <2>2 DEF Restart, JobInv, HolderExists, JobKept, Kept, Queued, DeadLettered,
         Unfinished, Live, queueVars, tableVars
<1>4. ASSUME NEW d \in Documents, Request(d) PROVE HolderExists' /\ JobKept'
  BY <1>4, RequestKeepsJobs
<1>5. ASSUME NEW d \in Documents, Reenqueue(d) PROVE HolderExists' /\ JobKept'
  <2>1. [document |-> d, attempt |-> 1] \in Payload
    BY MaxAttemptsAssumption DEF Payload, Job
  <2> QED
    BY <1>5, <2>1, InjectKeepsJobs DEF Reenqueue
<1>6. ASSUME PushMalformed PROVE HolderExists' /\ JobKept'
  BY <1>6, InjectKeepsJobs DEF PushMalformed, Payload
<1>7. ASSUME UNCHANGED vars PROVE HolderExists' /\ JobKept'
  BY <1>7 DEF JobInv, HolderExists, JobKept, Kept, Queued, DeadLettered, Works, Holds,
       Unfinished, Live, vars
<1>8. HolderExists' /\ JobKept'
  BY <1>2, <1>3, <1>4, <1>5, <1>6, <1>7 DEF Next
<1> QED
  BY <1>1, <1>8 DEF JobInv

LEMMA JobInit == Init => JobInv
<1>1. Init => IInv /\ NobodyCancelled
  BY InvInit DEF Init, NobodyCancelled
<1>2. Init => HolderExists /\ JobKept
  BY DEF Init, TableInit, UploadInit, HolderExists, JobKept
<1> QED
  BY <1>1, <1>2 DEF JobInv

(* A job that a worker has is in the processing list or being pushed.      *)
LEMMA WorkedIsSomewhere ==
  ASSUME TypeOK, ClaimsAreBacked, NEW w \in Workers, NEW d \in Documents, Works(w, d)
  PROVE  InProcessing(d) \/ BeingRetried(d)
<1>1. CASE pc[w] = "push"
  BY <1>1 DEF BeingRetried, Works
<1>2. CASE pc[w] # "push"
  <2>1. claim[w] \in JobsOf(d) /\ claim[w] \in Payload /\ w \in Busy(claim[w])
    BY <1>2 DEF Works, JobsOf, Payload, Busy, Backed
  <2>2. /\ Cardinality(Busy(claim[w])) \in Nat
        /\ Cardinality(Busy(claim[w])) # 0
    BY <2>1, BusyFinite, FS_EmptySet
  <2>3. processing[claim[w]] > 0
    BY <2>1, <2>2 DEF ClaimsAreBacked, TypeOK, QueueTypeOK
  <2> QED
    BY <2>1, <2>3 DEF InProcessing
<1> QED
  BY <1>1, <1>2

(* While only the object store fails, an accepted document that is         *)
(* unfinished has a job in one of the lists or in the hands of a worker    *)
(* that is about to push it again (document_worker.go:35-41, redis.go:     *)
(* 79-101).                                                                *)
THEOREM NoJobIsLost == OnlyStorageFails => (Spec => []UnfinishedHasJob)
<1> SUFFICES ASSUME OnlyStorageFails PROVE Spec => []UnfinishedHasJob
  OBVIOUS
<1>1. Init => JobInv
  BY JobInit
<1>2. JobInv /\ [Next]_vars => JobInv'
  BY JobStep
<1>3. JobInv /\ ClaimsAreBacked => UnfinishedHasJob
  BY WorkedIsSomewhere DEF JobInv, IInv, JobKept, Kept, UnfinishedHasJob
<1> QED
  BY <1>1, <1>2, <1>3, Backing, PTL DEF Spec
-----------------------------------------------------------------------------
(* Three promises of docs/architecture.md that some faults break, and the  *)
(* faults that do not.  The first: a failed document has a job, with       *)
(* PostgreSQL and the object store failing at will.  A worker acknowledges *)
(* a job only if it has seen its row ready or been refused the claim of    *)
(* it, and a failed row can be claimed.                                    *)
Failed(d) == status[d] = "failed" /\ d \notin deleted

FailedInv == IInv /\ NobodyCancelled /\ \A d \in Documents : Failed(d) => Kept(d)

LEMMA FailedLetsGo ==
  ASSUME QueueCallsSucceed, FailedInv, NEW w \in Workers, NEW d \in Documents, Work(w),
         Works(w, d), Failed(d)'
  PROVE  Kept(d)'
<1> USE DEF FailedInv, IInv
<1>1. claim[w] \in Job /\ claim[w].document = d
  BY DEF Works, JobsOf
<1>2. Replies(w, "redis") = {"ok"}
  BY QueueReplies
<1>3. ASSUME claim'[w] = claim[w],
             pc'[w] \in {"load", "claim", "read", "markReady", "markFailed", "remove", "push"}
      PROVE  Kept(d)'
  BY <1>3 DEF Works, Kept, JobsOf
<1>4. CASE Load(w)
  <2>1. PICK reply : Goto(w, AfterLoad(d, reply))
    BY <1>1, <1>4 DEF Load
  <2>2. status[d] = "failed"
    BY <1>4 DEF Load, Failed, tableVars
  <2>3. AfterLoad(d, reply) \in {"remove", "claim"}
    BY <2>2 DEF AfterLoad
  <2> QED
    BY <1>3, <2>1, <2>3 DEF Goto, TypeOK, WorkerTypeOK
<1>5. CASE Claim(w)
  <2>1. PICK reply : /\ ClaimDocumentProcessing(d, reply)
                     /\ Goto(w, AfterClaim(d, reply))
    BY <1>1, <1>5 DEF Claim
  <2>2. CASE Claimable(d)
    BY <1>3, <2>1, <2>2 DEF AfterClaim, Goto, TypeOK, WorkerTypeOK
  <2>3. CASE ~Claimable(d)
    BY <2>1, <2>3 DEF ClaimDocumentProcessing, Claimable, Failed
  <2> QED
    BY <2>2, <2>3
<1>6. CASE MarkReady(w)
  <2>1. PICK reply : /\ MarkDocument(d, "ready", reply)
                     /\ Goto(w, IF reply = "ok" /\ Markable(d) THEN "ack" ELSE "remove")
    BY <1>1, <1>6 DEF MarkReady
  <2>2. ~(reply = "ok" /\ Markable(d))
    BY <2>1 DEF MarkDocument, Applied, Failed, TypeOK, TableTypeOK
  <2> QED
    BY <1>3, <2>1, <2>2 DEF Goto, TypeOK, WorkerTypeOK
<1>7. CASE Read(w) \/ MarkFailed(w) \/ RetryRemove(w)
  BY <1>2, <1>3, <1>7 DEF Read, MarkFailed, RetryRemove, Goto, TypeOK, WorkerTypeOK
<1>8. CASE RetryPush(w)
  BY <1>2, <1>8, PushKeeps DEF Kept
<1>9. CASE CheckContext(w) \/ Consume(w) \/ Discard(w) \/ Ack(w)
  BY <1>9 DEF CheckContext, Consume, Discard, Ack, Works
<1> QED
  BY <1>4, <1>5, <1>6, <1>7, <1>8, <1>9 DEF Work, WorkerStep

LEMMA WorkKeepsFailed ==
  ASSUME QueueCallsSucceed, FailedInv, NEW w \in Workers, NEW d \in Documents, Work(w),
         Failed(d)'
  PROVE  Kept(d)'
<1>1. TypeOK /\ Replies(w, "redis") = {"ok"}
  BY QueueReplies DEF FailedInv, IInv
<1>2. Failed(d) \/ Holds(w, d)
  BY <1>1, WorkOnRows DEF KeepsRows, WinsRow, EndsRow, Failed, tableVars, TypeOK, TableTypeOK
<1>3. Kept(d)
  BY <1>1, <1>2, HolderWorks DEF FailedInv, Kept
<1>4. CASE Queued(d)
  BY <1>1, <1>4, ConsumeKeeps, PushKeeps, OtherCommandsKeep DEF Kept
<1>5. CASE DeadLettered(d)
  <2>1. CASE Consume(w)
    BY <1>5, <2>1 DEF Consume, MoveToProcessing, queueVars, DeadLettered, Kept
  <2> QED
    BY <1>1, <1>5, <2>1, PushKeeps, OtherCommandsKeep DEF Kept
<1>6. ASSUME NEW v \in Workers, Works(v, d) PROVE Kept(d)'
  <2>1. CASE v = w
    BY <1>6, <2>1, FailedLetsGo
  <2>2. CASE v # w
    BY <1>1, <1>6, <2>2, WorkOthers, OthersWork DEF Kept
  <2> QED
    BY <2>1, <2>2
<1> QED
  BY <1>3, <1>4, <1>5, <1>6 DEF Kept

(* Requests, the operator and restarts take no job away.                   *)
LEMMA OthersTakeNothing ==
  ASSUME QueueCallsSucceed, TypeOK, [Next]_vars, NEW d \in Documents,
         \A w \in Workers : ~Work(w)
  PROVE  Kept(d) => Kept(d)'
<1>1. ASSUME UNCHANGED <<main, deadLetter, workerVars>> PROVE Kept(d) => Kept(d)'
  BY <1>1 DEF Kept, Queued, DeadLettered, Works, workerVars
<1>2. ASSUME NEW payload \in Payload, main' = Append(main, payload),
             UNCHANGED <<deadLetter, workerVars>>
      PROVE  Kept(d) => Kept(d)'
  BY <1>2, AppendKeepsQueued DEF Kept, DeadLettered, Works, workerVars
<1>3. \A e \in Documents : [document |-> e, attempt |-> 1] \in Payload
  BY MaxAttemptsAssumption DEF Payload, Job
<1>4. ASSUME NEW e \in Documents, Request(e) PROVE Kept(d) => Kept(d)'
  <2>1. UNCHANGED <<deadLetter, workerVars>>
    BY <1>4, RequestOnRows DEF Request, Create, Reject, PutObject, InsertRow, Compensate,
       EnqueueJob, Enqueue, Delete, Abort, HangUp, queueVars
  <2>2. main' = main \/ main' = Append(main, [document |-> e, attempt |-> 1])
    BY <1>4 DEF Request, Create, Reject, PutObject, InsertRow, Compensate,
       EnqueueJob, Enqueue, Delete, Abort, HangUp, queueVars
  <2> QED
    BY <1>1, <1>2, <1>3, <2>1, <2>2
<1>5. ASSUME NEW payload \in Payload, Inject(payload) PROVE Kept(d) => Kept(d)'
  BY <1>2, <1>5 DEF Inject
<1>6. ASSUME NEW w \in Workers, Crash(w) \/ Terminate(w) \/ Restart(w)
      PROVE  Kept(d) => Kept(d)'
  <2>1. Restart(w)
    BY <1>6 DEF QueueCallsSucceed, Crash, Terminate
  <2>2. \A v \in Workers : Works(v, d) => Works(v, d)'
    BY <2>1 DEF Restart, Goto, Works, TypeOK, WorkerTypeOK
  <2> QED
    BY <2>1, <2>2 DEF Restart, Kept, Queued, DeadLettered, queueVars
<1>7. CASE UNCHANGED vars
  BY <1>1, <1>7 DEF vars, workerVars
<1> QED
  BY <1>3, <1>4, <1>5, <1>6, <1>7 DEF Next, Reenqueue, PushMalformed, Payload

LEMMA FailedStep ==
  ASSUME QueueCallsSucceed, FailedInv, [Next]_vars
  PROVE  FailedInv'
<1>1. IInv' /\ NobodyCancelled'
  BY InvStep, CancelledStep DEF FailedInv
<1>2. TypeOK
  BY DEF FailedInv, IInv
<1>3. ASSUME NEW d \in Documents, Failed(d)' PROVE Kept(d)'
  <2>1. CASE \E w \in Workers : Work(w)
    BY <1>3, <2>1, WorkKeepsFailed
  <2>2. CASE \A w \in Workers : ~Work(w)
    <3>1. ASSUME NEW e \in Documents, Request(e) PROVE Failed(d)
      BY <1>2, <1>3, <3>1, RequestOnRows DEF Failed, TypeOK, TableTypeOK, tableVars
    <3>2. ASSUME NEW w \in Workers, Crash(w) \/ Terminate(w) \/ Restart(w) PROVE Failed(d)
      BY <1>2, <1>3, <3>2, FaultOnRows DEF KeepsRows, Failed, tableVars
    <3>3. Failed(d)
      BY <1>3, <2>2, <3>1, <3>2 DEF Next, Reenqueue, PushMalformed, Inject, Failed, tableVars, vars
    <3> QED
      BY <1>2, <2>2, <3>3, OthersTakeNothing DEF FailedInv
  <2> QED
    BY <2>1, <2>2
<1> QED
  BY <1>1, <1>3 DEF FailedInv

(* While calls to Redis succeed and no process dies or is told to stop, a  *)
(* failed document keeps a job or a dead letter, whatever else fails: it   *)
(* takes a stop or an error of Redis, as between the two commands of Retry *)
(* (queue/redis.go:94-97), to lose the last one.                           *)
THEOREM FailedJobIsKept == QueueCallsSucceed => (Spec => []FailedKeepsJob)
<1> SUFFICES ASSUME QueueCallsSucceed PROVE Spec => []FailedKeepsJob
  OBVIOUS
<1>1. Init => FailedInv
  BY InvInit DEF Init, TableInit, NobodyCancelled, FailedInv, Failed
<1>2. FailedInv /\ [Next]_vars => FailedInv'
  BY FailedStep
<1>3. FailedInv /\ ClaimsAreBacked => FailedKeepsJob
  BY WorkedIsSomewhere DEF FailedInv, IInv, Failed, Kept, FailedKeepsJob
<1> QED
  BY <1>1, <1>2, <1>3, Backing, PTL DEF Spec

(* The second: while only the object store fails, a document that is       *)
(* processing has the job of the worker that claimed it                    *)
(* (document_worker.go:35-59).                                             *)
THEOREM ProcessingJobIsKept == OnlyStorageFails => (Spec => []ProcessingKeepsJob)
<1> SUFFICES ASSUME OnlyStorageFails PROVE Spec => []ProcessingKeepsJob
  OBVIOUS
<1>1. Init => JobInv
  BY JobInit
<1>2. JobInv /\ [Next]_vars => JobInv'
  BY JobStep
<1>3. JobInv /\ ClaimsAreBacked => ProcessingKeepsJob
  <2> SUFFICES ASSUME JobInv, ClaimsAreBacked, NEW d \in Documents,
                      status[d] = "processing", d \notin deleted
               PROVE  InProcessing(d) \/ BeingRetried(d)
    BY DEF ProcessingKeepsJob
  <2>1. PICK w \in Workers : Holds(w, d)
    BY DEF JobInv, HolderExists, Live
  <2> QED
    BY <2>1, HolderWorks, WorkedIsSomewhere DEF JobInv, IInv
<1> QED
  BY <1>1, <1>2, <1>3, Backing, PTL DEF Spec

(* The third, with the faults that may still leave an object behind.       *)
StorageCallsSucceed == "storage" \notin Refusing \cup Losing /\ CanCancel = FALSE

RowlessObjectsAreInFlight ==
  \A d \in stored :
    status[d] = "none" =>
      \/ upload[d] \in {"insert", "compensate"}
      \/ upload[d] = "aborted" /\ CanStop

CompensationInv == IInv /\ NobodyCancelled /\ RowlessObjectsAreInFlight

LEMMA RequestCompensates ==
  ASSUME StorageCallsSucceed, CompensationInv, NEW e \in Documents, Request(e)
  PROVE  RowlessObjectsAreInFlight'
<1> USE DEF RowlessObjectsAreInFlight, CompensationInv, IInv, TypeOK, TableTypeOK, UploadTypeOK,
        StorageTypeOK, tableVars, Advance
<1>1. \A process : Replies(process, "storage") = {"ok"}
  BY DEF StorageCallsSucceed, NobodyCancelled, Replies
<1>2. CASE Reject(e)
  BY <1>2 DEF Reject
<1>3. CASE PutObject(e)
  BY <1>1, <1>3 DEF PutObject, Put
<1>4. CASE InsertRow(e)
  BY <1>4 DEF InsertRow, CreateDocument, Applied
<1>5. CASE Compensate(e)
  BY <1>1, <1>5 DEF Compensate, DeleteObject, Applied
<1>6. CASE EnqueueJob(e) \/ Delete(e) \/ HangUp(e)
  BY <1>6 DEF EnqueueJob, Delete, SoftDeleteDocument, HangUp
<1>7. CASE Abort(e)
  BY <1>7 DEF Abort
<1> QED
  BY <1>2, <1>3, <1>4, <1>5, <1>6, <1>7 DEF Request, Create

(* While calls to the object store succeed and no client hangs up, an      *)
(* object without a row belongs to a request that has still to insert the  *)
(* row or to delete the object, or to one whose server died in between     *)
(* (document_service.go:68-79).  So a request that has failed, whatever    *)
(* PostgreSQL and Redis did, has left none; a server that dies between Put *)
(* and the INSERT may leave one, and nothing removes it.                   *)
THEOREM CompensationWorks ==
  StorageCallsSucceed
    => (Spec => [](RowlessObjectsAreInFlight /\ FailedInsertLeavesNoObject))
<1> SUFFICES ASSUME StorageCallsSucceed
             PROVE  Spec => [](RowlessObjectsAreInFlight /\ FailedInsertLeavesNoObject)
  OBVIOUS
<1>1. Init => CompensationInv
  BY InvInit DEF Init, StorageInit, NobodyCancelled, CompensationInv, RowlessObjectsAreInFlight
<1>2. CompensationInv /\ [Next]_vars => CompensationInv'
  <2> SUFFICES ASSUME CompensationInv, [Next]_vars PROVE CompensationInv'
    OBVIOUS
  <2>1. IInv' /\ NobodyCancelled'
    BY InvStep DEF CompensationInv, StorageCallsSucceed, NobodyCancelled, Next, Request, HangUp,
       Reenqueue, PushMalformed, Inject, Work, Crash, Terminate, Restart, vars
  <2>2. ASSUME NEW w \in Workers, Work(w) \/ Crash(w) \/ Terminate(w) \/ Restart(w)
        PROVE  RowlessObjectsAreInFlight'
    BY <2>2, WorkRows DEF RowlessObjectsAreInFlight, CompensationInv, IInv, TypeOK, StorageTypeOK
  <2>3. ASSUME UNCHANGED <<tableVars, workerVars, stored, upload>>
        PROVE  RowlessObjectsAreInFlight'
    BY <2>3 DEF RowlessObjectsAreInFlight, CompensationInv, tableVars
  <2>4. RowlessObjectsAreInFlight'
    BY <2>2, <2>3, RequestCompensates, OtherOnRows DEF Next
  <2> QED
    BY <2>1, <2>4 DEF CompensationInv
<1>3. CompensationInv => RowlessObjectsAreInFlight /\ FailedInsertLeavesNoObject
  BY DEF CompensationInv, RowlessObjectsAreInFlight, FailedInsertLeavesNoObject
<1> QED
  BY <1>1, <1>2, <1>3, PTL DEF Spec
-----------------------------------------------------------------------------
(* The refinement of ReliableQueue.  How many workers are between the two  *)
(* commands of a retry of a payload, before and after a step of worker w.  *)
LEMMA SamePayloads == Queue!Payload = Payload /\ Queue!Job = Job
  BY DEF Queue!Payload, Queue!Job, Payload, Job

LEMMA PushingFinite ==
  ASSUME NEW payload
  PROVE  IsFiniteSet(Pushing(payload)) /\ Cardinality(Pushing(payload)) \in Nat
  BY WorkersAssumption, FS_Subset, FS_CardinalityType DEF Pushing

LEMMA HeldIs ==
  ASSUME TypeOK
  PROVE  /\ Held \in [Payload -> Nat]
         /\ \A payload \in Payload :
              Held[payload] = processing[payload] + Cardinality(Pushing(payload))
  BY PushingFinite DEF Held, TypeOK, QueueTypeOK

LEMMA HeldKept ==
  ASSUME UNCHANGED processing, \A payload \in Payload : Pushing(payload)' = Pushing(payload)
  PROVE  Held' = Held
  BY DEF Held

LEMMA PushingKept ==
  ASSUME NEW w \in Workers, OthersKeep(w), pc[w] # "push", pc'[w] # "push"
  PROVE  \A payload \in Payload : Pushing(payload)' = Pushing(payload)
  BY DEF Pushing, OthersKeep

LEMMA PushingGained ==
  ASSUME NEW w \in Workers, OthersKeep(w), NEW payload \in Payload,
         pc[w] # "push", pc'[w] = "push", claim'[w] = claim[w]
  PROVE  Cardinality(Pushing(payload)')
           = Cardinality(Pushing(payload)) + IF claim[w] = payload THEN 1 ELSE 0
<1>1. w \notin Pushing(payload)
  BY DEF Pushing
<1>2. CASE claim[w] = payload
  <2>1. Pushing(payload)' = Pushing(payload) \cup {w}
    BY <1>2 DEF Pushing, OthersKeep
  <2> QED
    BY <1>1, <1>2, <2>1, PushingFinite, FS_AddElement
<1>3. CASE claim[w] # payload
  <2>1. Pushing(payload)' = Pushing(payload)
    BY <1>3 DEF Pushing, OthersKeep
  <2> QED
    BY <1>3, <2>1, PushingFinite
<1> QED
  BY <1>2, <1>3

LEMMA PushingLost ==
  ASSUME NEW w \in Workers, OthersKeep(w), NEW payload \in Payload,
         pc[w] = "push", pc'[w] # "push"
  PROVE  /\ Cardinality(Pushing(payload)')
              = Cardinality(Pushing(payload)) - IF claim[w] = payload THEN 1 ELSE 0
         /\ claim[w] = payload => Cardinality(Pushing(payload)) > 0
<1>1. CASE claim[w] = payload
  <2>1. Pushing(payload)' = Pushing(payload) \ {w} /\ w \in Pushing(payload)
    BY <1>1 DEF Pushing, OthersKeep
  <2>2. Cardinality(Pushing(payload)) # 0
    BY <2>1, PushingFinite, FS_EmptySet
  <2> QED
    BY <1>1, <2>1, <2>2, PushingFinite, FS_RemoveElement
<1>2. CASE claim[w] # payload
  <2>1. Pushing(payload)' = Pushing(payload)
    BY <1>2 DEF Pushing, OthersKeep
  <2> QED
    BY <1>2, <2>1, PushingFinite
<1> QED
  BY <1>1, <1>2

(* A worker gives a copy back by its LREM, which finds one because the     *)
(* worker is backed, or by leaving the place between two commands.         *)
LEMMA RemovingReturns ==
  ASSUME TypeOK, TypeOK', ClaimsAreBacked, NEW w \in Workers, OthersKeep(w),
         pc[w] \in Backed, claim[w] \in Payload, NEW reply, Applied(reply),
         RemoveFromProcessing(claim[w], reply), pc'[w] # "push"
  PROVE  Queue!Return(claim[w])
<1>1. processing[claim[w]] > 0
  <2>1. w \in Busy(claim[w])
    BY DEF Busy
  <2>2. Cardinality(Busy(claim[w])) \in Nat /\ Cardinality(Busy(claim[w])) # 0
    BY <2>1, BusyFinite, FS_EmptySet
  <2> QED
    BY <2>2 DEF ClaimsAreBacked, TypeOK, QueueTypeOK
<1>2. processing' = [processing EXCEPT ![claim[w]] = @ - 1]
  BY <1>1 DEF RemoveFromProcessing, LRem, TypeOK, QueueTypeOK
<1>3. \A payload \in Payload : Pushing(payload)' = Pushing(payload)
  <2>1. pc[w] # "push"
    BY DEF Backed
  <2> QED
    BY <2>1, PushingKept
<1>4. /\ Held[claim[w]] > 0
      /\ \A payload \in Payload :
           Held'[payload] = Held[payload] - IF claim[w] = payload THEN 1 ELSE 0
  <2> SUFFICES ASSUME NEW payload \in Payload
               PROVE  /\ Held'[payload] = Held[payload] - IF claim[w] = payload THEN 1 ELSE 0
                      /\ claim[w] = payload => Held[payload] > 0
    OBVIOUS
  <2>1. /\ Held[payload] = processing[payload] + Cardinality(Pushing(payload))
        /\ Held'[payload] = processing'[payload] + Cardinality(Pushing(payload))
    BY <1>3, HeldIs DEF Held
  <2>2. Cardinality(Pushing(payload)) \in Nat /\ processing[payload] \in Nat
    BY PushingFinite DEF TypeOK, QueueTypeOK
  <2>3. processing'[payload] = processing[payload] - IF claim[w] = payload THEN 1 ELSE 0
    BY <1>2, <2>2 DEF TypeOK, QueueTypeOK
  <2> QED
    BY <1>1, <2>1, <2>2, <2>3
<1>5. Held' = [Held EXCEPT ![claim[w]] = @ - 1]
  <2>1. Held \in [Payload -> Nat] /\ Held' = [payload \in Payload |-> Held'[payload]]
    BY HeldIs DEF Held
  <2> QED
    BY <1>4, <2>1
<1> QED
  BY <1>4, <1>5 DEF Queue!Return

LEMMA LeavingReturns ==
  ASSUME TypeOK, NEW w \in Workers, OthersKeep(w), UNCHANGED processing,
         pc[w] = "push", pc'[w] # "push"
  PROVE  claim[w] \in Job /\ Queue!Return(claim[w])
<1>1. claim[w] \in Job /\ claim[w] \in Payload
  BY DEF TypeOK, WorkerTypeOK, Payload
<1>2. /\ Held[claim[w]] > 0
      /\ \A payload \in Payload :
           Held'[payload] = Held[payload] - IF claim[w] = payload THEN 1 ELSE 0
  <2> SUFFICES ASSUME NEW payload \in Payload
               PROVE  /\ Held'[payload] = Held[payload] - IF claim[w] = payload THEN 1 ELSE 0
                      /\ claim[w] = payload => Held[payload] > 0
    BY <1>1
  <2>1. /\ Held[payload] = processing[payload] + Cardinality(Pushing(payload))
        /\ Held'[payload] = processing[payload] + Cardinality(Pushing(payload)')
    BY HeldIs DEF Held
  <2>2. Cardinality(Pushing(payload)) \in Nat /\ processing[payload] \in Nat
    BY PushingFinite DEF TypeOK, QueueTypeOK
  <2> QED
    BY <2>1, <2>2, PushingLost
<1>3. Held' = [Held EXCEPT ![claim[w]] = @ - 1]
  <2>1. Held \in [Payload -> Nat] /\ Held' = [payload \in Payload |-> Held'[payload]]
    BY HeldIs DEF Held
  <2> QED
    BY <1>2, <2>1
<1> QED
  BY <1>1, <1>2, <1>3 DEF Queue!Return

(* What each kind of step is to the queue.                                 *)
LEMMA ConsumeHandsOut ==
  ASSUME TypeOK, NEW w \in Workers, OthersKeep(w), Consume(w)
  PROVE  [Queue!Next]_(Queue!vars)
<1>1. \A payload \in Payload : Pushing(payload)' = Pushing(payload)
  <2>1. pc[w] # "push" /\ pc'[w] # "push"
    BY DEF Consume, Leave, TypeOK, WorkerTypeOK
  <2> QED
    BY <2>1, PushingKept
<1>2. CASE UNCHANGED queueVars
  BY <1>1, <1>2, HeldKept DEF queueVars, Queue!vars
<1>3. CASE /\ main # <<>> /\ main' = Tail(main)
           /\ processing' = [processing EXCEPT ![Head(main)] = @ + 1]
           /\ UNCHANGED deadLetter
  <2>1. Head(main) \in Payload
    BY <1>3 DEF TypeOK, QueueTypeOK
  <2>2. \A payload \in Payload :
          Held'[payload] = IF payload = Head(main) THEN Held[payload] + 1 ELSE Held[payload]
    <3> SUFFICES ASSUME NEW payload \in Payload
                 PROVE  Held'[payload]
                          = IF payload = Head(main) THEN Held[payload] + 1 ELSE Held[payload]
      OBVIOUS
    <3>1. /\ Held[payload] = processing[payload] + Cardinality(Pushing(payload))
          /\ Held'[payload] = processing'[payload] + Cardinality(Pushing(payload))
      BY <1>1, HeldIs DEF Held
    <3>2. Cardinality(Pushing(payload)) \in Nat /\ processing[payload] \in Nat
      BY PushingFinite DEF TypeOK, QueueTypeOK
    <3>3. processing'[payload]
            = IF payload = Head(main) THEN processing[payload] + 1 ELSE processing[payload]
      BY <1>3 DEF TypeOK, QueueTypeOK
    <3> QED
      BY <3>1, <3>2, <3>3
  <2>3. Held' = [Held EXCEPT ![Head(main)] = @ + 1]
    <3>1. Held \in [Payload -> Nat] /\ Held' = [payload \in Payload |-> Held'[payload]]
      BY HeldIs DEF Held
    <3> QED
      BY <2>1, <2>2, <3>1
  <2> QED
    BY <1>3, <2>3 DEF Queue!HandOut, Queue!Next
<1> QED
  BY <1>2, <1>3 DEF Consume, MoveToProcessing

LEMMA RemoveFinishes ==
  ASSUME TypeOK, TypeOK', ClaimsAreBacked, NEW w \in Workers, OthersKeep(w),
         Discard(w) \/ Ack(w) \/ RetryRemove(w)
  PROVE  [Queue!Next]_(Queue!vars)
<1>1. pc[w] \in Backed /\ pc[w] # "push" /\ claim[w] \in Payload
  BY DEF Discard, Ack, RetryRemove, Backed, TypeOK, WorkerTypeOK, Payload
<1>2. PICK reply : /\ RemoveFromProcessing(claim[w], reply)
                   /\ pc'[w] = "push" => reply = "ok" /\ claim'[w] = claim[w]
  BY DEF Discard, Ack, RetryRemove, Goto, Leave, TypeOK, WorkerTypeOK
<1>3. UNCHANGED <<main, deadLetter>>
  BY <1>2 DEF RemoveFromProcessing
<1>4. CASE Applied(reply) /\ pc'[w] # "push"
  <2>1. Queue!Return(claim[w])
    BY <1>1, <1>2, <1>4, RemovingReturns
  <2>2. Queue!Finish(claim[w])
    BY <1>3, <2>1 DEF Queue!Finish
  <2> QED
    BY <1>1, <2>2, SamePayloads DEF Queue!Next
<1>5. CASE pc'[w] = "push"
  <2>1. processing[claim[w]] > 0
    <3>1. w \in Busy(claim[w])
      BY <1>1 DEF Busy
    <3>2. Cardinality(Busy(claim[w])) \in Nat /\ Cardinality(Busy(claim[w])) # 0
      BY <3>1, BusyFinite, FS_EmptySet
    <3> QED
      BY <1>1, <3>2 DEF ClaimsAreBacked, TypeOK, QueueTypeOK
  <2>2. processing' = [processing EXCEPT ![claim[w]] = @ - 1]
    BY <1>2, <1>5, <2>1 DEF RemoveFromProcessing, Applied, LRem, TypeOK, QueueTypeOK
  <2>3. ASSUME NEW payload \in Payload
        PROVE  processing'[payload] + Cardinality(Pushing(payload)')
                 = processing[payload] + Cardinality(Pushing(payload))
    <3>1. Cardinality(Pushing(payload)')
            = Cardinality(Pushing(payload)) + IF claim[w] = payload THEN 1 ELSE 0
      BY <1>1, <1>2, <1>5, PushingGained
    <3>2. Cardinality(Pushing(payload)) \in Nat /\ processing[payload] \in Nat
      BY PushingFinite DEF TypeOK, QueueTypeOK
    <3>3. processing'[payload] = processing[payload] - IF claim[w] = payload THEN 1 ELSE 0
      BY <2>2, <3>2 DEF TypeOK, QueueTypeOK
    <3> QED
      BY <3>1, <3>2, <3>3
  <2>4. Held' = Held
    BY <2>3 DEF Held
  <2> QED
    BY <1>3, <2>4 DEF Queue!vars
<1>6. CASE ~Applied(reply)
  <2>1. UNCHANGED processing /\ pc'[w] # "push"
    BY <1>2, <1>6 DEF RemoveFromProcessing, Applied
  <2>2. Held' = Held
    BY <1>1, <2>1, PushingKept, HeldKept
  <2> QED
    BY <1>3, <2>2 DEF Queue!vars
<1> QED
  BY <1>4, <1>5, <1>6

LEMMA PushTriesAgain ==
  ASSUME TypeOK, NEW w \in Workers, OthersKeep(w), RetryPush(w)
  PROVE  [Queue!Next]_(Queue!vars)
<1>1. PICK reply : PushRetry(claim[w], reply)
  BY DEF RetryPush
<1>2. claim[w] \in Job /\ Queue!Return(claim[w])
  <2>1. pc[w] = "push" /\ pc'[w] # "push" /\ UNCHANGED processing
    BY <1>1 DEF RetryPush, PushRetry, Leave, TypeOK, WorkerTypeOK
  <2> QED
    BY <2>1, LeavingReturns
<1>3. claim[w].attempt \in 1 .. MaxAttempts
  BY <1>2 DEF Job
<1>4. CASE ~Applied(reply)
  <2>1. Queue!Finish(claim[w])
    BY <1>1, <1>2, <1>4 DEF PushRetry, Queue!Finish
  <2> QED
    BY <1>2, <2>1, SamePayloads DEF Queue!Next, Payload
<1>5. CASE Applied(reply) /\ Exhausted(claim[w])
  <2>1. claim[w].attempt = MaxAttempts
    BY <1>3, <1>5, MaxAttemptsAssumption DEF Exhausted
  <2>2. Queue!Bury(claim[w])
    BY <1>1, <1>2, <1>5, <2>1 DEF PushRetry, Queue!Bury
  <2> QED
    BY <1>2, <2>2, SamePayloads DEF Queue!Next
<1>6. CASE Applied(reply) /\ ~Exhausted(claim[w])
  <2>1. claim[w].attempt < MaxAttempts
    BY <1>3, <1>6, MaxAttemptsAssumption DEF Exhausted
  <2>2. Queue!TryAgain(claim[w])
    BY <1>1, <1>2, <1>6, <2>1 DEF PushRetry, NextAttempt, Queue!TryAgain
  <2> QED
    BY <1>2, <2>2, SamePayloads DEF Queue!Next
<1> QED
  BY <1>4, <1>5, <1>6

LEMMA WorkOnQueue ==
  ASSUME TypeOK, TypeOK', ClaimsAreBacked, NEW w \in Workers, Work(w)
  PROVE  [Queue!Next]_(Queue!vars)
<1>1. OthersKeep(w)
  BY WorkOthers
<1>2. CASE CheckContext(w) \/ Load(w) \/ Claim(w) \/ Read(w) \/ MarkReady(w) \/ MarkFailed(w)
  <2>1. UNCHANGED queueVars
    BY <1>2 DEF CheckContext, Load, Claim, Read, MarkReady, MarkFailed
  <2>2. pc[w] # "push" /\ pc'[w] # "push"
    BY <1>2 DEF CheckContext, Load, Claim, Read, MarkReady, MarkFailed, AfterLoad, AfterClaim,
                Goto, TypeOK, WorkerTypeOK
  <2>3. Held' = Held
    BY <1>1, <2>1, <2>2, PushingKept, HeldKept DEF queueVars
  <2> QED
    BY <2>1, <2>3 DEF queueVars, Queue!vars
<1> QED
  BY <1>1, <1>2, ConsumeHandsOut, RemoveFinishes, PushTriesAgain DEF Work, WorkerStep

LEMMA FaultOnQueue ==
  ASSUME TypeOK, NEW w \in Workers, Crash(w) \/ Terminate(w) \/ Restart(w)
  PROVE  [Queue!Next]_(Queue!vars)
<1>1. UNCHANGED queueVars /\ OthersKeep(w)
  BY FaultOnRows DEF Crash, Terminate, Restart
<1>2. CASE pc[w] = "push" /\ pc'[w] # "push"
  <2>1. claim[w] \in Job /\ Queue!Return(claim[w])
    BY <1>1, <1>2, LeavingReturns DEF queueVars
  <2>2. Queue!Finish(claim[w])
    BY <1>1, <2>1 DEF Queue!Finish, queueVars
  <2> QED
    BY <2>1, <2>2, SamePayloads DEF Queue!Next, Payload
<1>3. CASE ~(pc[w] = "push" /\ pc'[w] # "push")
  <2>1. \A payload \in Payload : Pushing(payload)' = Pushing(payload)
    <3>1. CASE Terminate(w)
      BY <3>1 DEF Terminate, Pushing, workerVars
    <3>2. CASE Crash(w) \/ Restart(w)
      <4>1. pc[w] # "push" /\ pc'[w] # "push"
        BY <1>3, <3>2 DEF Crash, Restart, Leave, Goto, TypeOK, WorkerTypeOK
      <4> QED
        BY <1>1, <4>1, PushingKept
    <3> QED
      BY <3>1, <3>2
  <2>2. Held' = Held
    BY <1>1, <2>1, HeldKept DEF queueVars
  <2> QED
    BY <1>1, <2>2 DEF queueVars, Queue!vars
<1> QED
  BY <1>2, <1>3

LEMMA QueueStep ==
  ASSUME TypeOK, TypeOK', ClaimsAreBacked, [Next]_vars
  PROVE  [Queue!Next]_(Queue!vars)
<1>1. ASSUME UNCHANGED <<processing, workerVars>> PROVE Held' = Held
  BY <1>1 DEF Held, Pushing, workerVars
<1>2. ASSUME UNCHANGED <<processing, deadLetter, workerVars>>,
             NEW payload \in Payload, main' = Append(main, payload),
             payload = Malformed \/ \E d \in Documents : payload = [document |-> d, attempt |-> 1]
      PROVE  Queue!Next
  BY <1>1, <1>2 DEF Queue!Push, Queue!Next
<1>3. ASSUME UNCHANGED <<main, processing, deadLetter, workerVars>> PROVE UNCHANGED Queue!vars
  BY <1>1, <1>3 DEF Queue!vars
<1>4. \A d \in Documents : [document |-> d, attempt |-> 1] \in Payload
  BY MaxAttemptsAssumption DEF Payload, Job
<1>5. ASSUME NEW d \in Documents, Request(d) PROVE [Queue!Next]_(Queue!vars)
  <2>1. UNCHANGED <<processing, deadLetter, workerVars>>
    BY <1>5 DEF Request, Create, Reject, PutObject, InsertRow, Compensate, EnqueueJob, Enqueue,
                Delete, Abort, HangUp, queueVars
  <2>2. main' = main \/ main' = Append(main, [document |-> d, attempt |-> 1])
    BY <1>5 DEF Request, Create, Reject, PutObject, InsertRow, Compensate, EnqueueJob, Enqueue,
                Delete, Abort, HangUp, queueVars
  <2> QED
    BY <1>2, <1>3, <1>4, <2>1, <2>2
<1>6. ASSUME NEW d \in Documents, Reenqueue(d) PROVE Queue!Next
  BY <1>2, <1>4, <1>6 DEF Reenqueue, Inject
<1>7. ASSUME PushMalformed PROVE Queue!Next
  BY <1>2, <1>7 DEF PushMalformed, Inject, Payload
<1>8. CASE UNCHANGED vars
  BY <1>3, <1>8 DEF vars, workerVars
<1> QED
  BY <1>5, <1>6, <1>7, <1>8, WorkOnQueue, FaultOnQueue DEF Next

LEMMA QueueStarts == Init => Queue!Init
<1> SUFFICES ASSUME Init PROVE Queue!Init
  OBVIOUS
<1>1. \A payload \in Payload : processing[payload] + Cardinality(Pushing(payload)) = 0
  <2>1. \A payload : Pushing(payload) = {}
    BY DEF Init, WorkerInit, Pushing
  <2> QED
    BY <2>1, FS_EmptySet DEF Init, QueueInit
<1>2. Held = [payload \in Payload |-> 0]
  BY <1>1 DEF Held
<1> QED
  BY <1>2, SamePayloads DEF Queue!Init, Init, QueueInit

(* The three lists implement a reliable queue, for any number of workers   *)
(* and documents, whatever calls fail and whichever worker dies: payloads  *)
(* come out in the order they went in, each copy is returned once, and a   *)
(* job is buried after its last attempt and not before (redis.go:79-101).  *)
THEOREM QueueIsReliable == Spec => QueueImplemented
<1>1. TypeOK /\ TypeOK' /\ ClaimsAreBacked /\ [Next]_vars => [Queue!Next]_(Queue!vars)
  BY QueueStep
<1> QED
  BY <1>1, QueueStarts, TypeCorrect, Backing, PTL DEF Spec, QueueImplemented, Queue!Spec
-----------------------------------------------------------------------------
(* What is left behind when something fails.  First, the copies in the     *)
(* processing list that no worker is busy with.  A worker becomes busy     *)
(* with a copy it has just added and is busy no more when it removes it,   *)
(* or stops.                                                               *)
LEMMA BusyKept ==
  ASSUME NEW w \in Workers, OthersKeep(w), pc[w] \in Backed <=> pc'[w] \in Backed,
         pc'[w] \in Backed => claim'[w] = claim[w]
  PROVE  \A payload \in Payload : Busy(payload)' = Busy(payload)
  BY DEF Busy, OthersKeep

LEMMA BusyGained ==
  ASSUME NEW w \in Workers, OthersKeep(w), NEW payload \in Payload,
         pc[w] \notin Backed, pc'[w] \in Backed
  PROVE  Cardinality(Busy(payload)')
           = Cardinality(Busy(payload)) + IF claim'[w] = payload THEN 1 ELSE 0
<1>1. w \notin Busy(payload)
  BY DEF Busy
<1>2. CASE claim'[w] = payload
  <2>1. Busy(payload)' = Busy(payload) \cup {w}
    BY <1>2 DEF Busy, OthersKeep
  <2> QED
    BY <1>1, <1>2, <2>1, BusyFinite, FS_AddElement
<1>3. CASE claim'[w] # payload
  <2>1. Busy(payload)' = Busy(payload)
    BY <1>1, <1>3 DEF Busy, OthersKeep
  <2> QED
    BY <1>3, <2>1, BusyFinite
<1> QED
  BY <1>2, <1>3

LEMMA BusyLost ==
  ASSUME NEW w \in Workers, OthersKeep(w), NEW payload \in Payload,
         pc[w] \in Backed, pc'[w] \notin Backed
  PROVE  /\ Cardinality(Busy(payload)')
              = Cardinality(Busy(payload)) - IF claim[w] = payload THEN 1 ELSE 0
         /\ claim[w] = payload => Cardinality(Busy(payload)) > 0
<1>1. CASE claim[w] = payload
  <2>1. Busy(payload)' = Busy(payload) \ {w} /\ w \in Busy(payload)
    BY <1>1 DEF Busy, OthersKeep
  <2>2. Cardinality(Busy(payload)) # 0
    BY <2>1, BusyFinite, FS_EmptySet
  <2>3. IsFiniteSet(Busy(payload)) /\ Cardinality(Busy(payload)) \in Nat
    BY BusyFinite
  <2>4. Cardinality(Busy(payload)') = Cardinality(Busy(payload)) - 1
    BY <2>1, <2>3, FS_RemoveElement
  <2> QED
    BY <1>1, <2>2, <2>3, <2>4
<1>2. CASE claim[w] # payload
  <2>1. Busy(payload)' = Busy(payload)
    BY <1>2 DEF Busy, OthersKeep
  <2> QED
    BY <1>2, <2>1, BusyFinite
<1> QED
  BY <1>1, <1>2

(* What a step may do to the stranded copies.                              *)
Strands ==
  \A payload \in Payload :
    Stranded(payload)' # Stranded(payload) =>
      /\ Stranded(payload)' = Stranded(payload) + 1
      /\ \E w \in Workers : Stops(w)

LEMMA SameStrands ==
  ASSUME UNCHANGED processing, \A payload \in Payload : Busy(payload)' = Busy(payload)
  PROVE  Strands
  BY DEF Strands, Stranded

(* A worker is no longer busy: it removed its copy, or it stopped.         *)
LEMMA ReleaseStrands ==
  ASSUME TypeOK, ClaimsAreBacked, NEW w \in Workers, OthersKeep(w),
         pc[w] \in Backed, pc'[w] \notin Backed, claim[w] \in Payload,
         \/ processing' = LRem(claim[w])
         \/ processing' = processing /\ pc'[w] = "stopped"
  PROVE  Strands
<1> SUFFICES ASSUME NEW payload \in Payload
             PROVE  \/ Stranded(payload)' = Stranded(payload)
                    \/ /\ Stranded(payload)' = Stranded(payload) + 1
                       /\ pc'[w] = "stopped"
  BY DEF Strands, Stops, Backed
<1>1. /\ Cardinality(Busy(payload)')
           = Cardinality(Busy(payload)) - IF claim[w] = payload THEN 1 ELSE 0
      /\ claim[w] = payload => Cardinality(Busy(payload)) > 0
  BY BusyLost
<1>2. /\ processing \in [Payload -> Nat] /\ Cardinality(Busy(payload)) \in Nat
      /\ Cardinality(Busy(payload)) <= processing[payload]
  BY BusyFinite DEF TypeOK, QueueTypeOK, ClaimsAreBacked
<1>3. CASE processing' = LRem(claim[w])
  <2>1. processing'[payload] = processing[payload] - IF claim[w] = payload THEN 1 ELSE 0
    BY <1>1, <1>2, <1>3 DEF LRem
  <2> QED
    BY <1>1, <1>2, <2>1 DEF Stranded
<1>4. CASE processing' = processing /\ pc'[w] = "stopped"
  BY <1>1, <1>2, <1>4 DEF Stranded
<1> QED
  BY <1>3, <1>4

LEMMA ConsumeStrands ==
  ASSUME TypeOK, NEW w \in Workers, OthersKeep(w), Consume(w)
  PROVE  Strands
<1>1. PICK reply : /\ MoveToProcessing(reply)
                   /\ reply # "ok" => pc'[w] = "stopped"
                   /\ reply = "ok" => claim'[w] = Head(main) /\ pc'[w] \in {"discard", "load"}
  BY DEF Consume, Leave, TypeOK, WorkerTypeOK
<1>2. pc[w] = "consume"
  BY DEF Consume
<1>3. CASE UNCHANGED processing /\ reply # "ok"
  BY <1>1, <1>2, <1>3, BusyKept, SameStrands DEF Backed
<1>4. CASE processing' = [processing EXCEPT ![Head(main)] = @ + 1]
  <2> SUFFICES ASSUME NEW payload \in Payload
               PROVE  \/ Stranded(payload)' = Stranded(payload)
                      \/ /\ Stranded(payload)' = Stranded(payload) + 1
                         /\ pc'[w] = "stopped"
    BY <1>2 DEF Strands, Stops
  <2>1. processing[payload] \in Nat /\ Cardinality(Busy(payload)) \in Nat
    BY BusyFinite DEF TypeOK, QueueTypeOK
  <2>2. processing'[payload] = processing[payload] + IF payload = Head(main) THEN 1 ELSE 0
    BY <1>4, <2>1 DEF TypeOK, QueueTypeOK
  <2>3. CASE reply = "ok"
    <3>1. Cardinality(Busy(payload)')
            = Cardinality(Busy(payload)) + IF Head(main) = payload THEN 1 ELSE 0
      BY <1>1, <1>2, <2>3, BusyGained DEF Backed
    <3> QED
      BY <2>1, <2>2, <3>1 DEF Stranded
  <2>4. CASE reply # "ok"
    <3>1. Busy(payload)' = Busy(payload) /\ pc'[w] = "stopped"
      BY <1>1, <1>2, <2>4, BusyKept DEF Backed
    <3> QED
      BY <2>1, <2>2, <3>1 DEF Stranded
  <2> QED
    BY <2>3, <2>4
<1> QED
  BY <1>1, <1>3, <1>4 DEF MoveToProcessing, queueVars

LEMMA WorkStrands ==
  ASSUME TypeOK, ClaimsAreBacked, NEW w \in Workers, Work(w)
  PROVE  Strands
<1>1. OthersKeep(w)
  BY WorkOthers
<1>2. CASE Discard(w) \/ Ack(w) \/ RetryRemove(w)
  <2>1. /\ pc[w] \in Backed /\ pc'[w] \notin Backed /\ claim[w] \in Payload
    BY <1>2 DEF Discard, Ack, RetryRemove, Goto, Leave, Backed, TypeOK, WorkerTypeOK, Payload
  <2>2. \/ processing' = LRem(claim[w])
        \/ processing' = processing /\ pc'[w] = "stopped"
    BY <1>2 DEF Discard, Ack, RetryRemove, RemoveFromProcessing, Applied, Leave, TypeOK,
                WorkerTypeOK
  <2> QED
    BY <1>1, <2>1, <2>2, ReleaseStrands
<1>3. CASE CheckContext(w) \/ Load(w) \/ Claim(w) \/ Read(w) \/ MarkReady(w)
           \/ MarkFailed(w) \/ RetryPush(w)
  <2>1. UNCHANGED processing
    BY <1>3 DEF CheckContext, Load, Claim, Read, MarkReady, MarkFailed, RetryPush,
                PushRetry, queueVars
  <2>2. pc[w] \in Backed <=> pc'[w] \in Backed
    BY <1>3 DEF CheckContext, Load, Claim, Read, MarkReady, MarkFailed, RetryPush, AfterLoad,
                AfterClaim, Goto, Leave, Backed, TypeOK, WorkerTypeOK
  <2>3. pc'[w] \in Backed => claim'[w] = claim[w]
    BY <1>3 DEF CheckContext, Load, Claim, Read, MarkReady, MarkFailed, RetryPush,
                Goto, Leave, Backed, TypeOK, WorkerTypeOK
  <2> QED
    BY <1>1, <2>1, <2>2, <2>3, BusyKept, SameStrands
<1> QED
  BY <1>1, <1>2, <1>3, ConsumeStrands DEF Work, WorkerStep

LEMMA FaultStrands ==
  ASSUME TypeOK, ClaimsAreBacked, NEW w \in Workers, Crash(w) \/ Terminate(w) \/ Restart(w)
  PROVE  Strands
<1>1. OthersKeep(w) /\ UNCHANGED processing
  BY FaultOnRows DEF Crash, Terminate, Restart, queueVars
<1>2. CASE Crash(w) /\ pc[w] \in Backed
  <2>1. pc'[w] = "stopped" /\ claim[w] \in Payload
    BY <1>2 DEF Crash, Leave, Backed, TypeOK, WorkerTypeOK, Payload
  <2> QED
    BY <1>1, <1>2, <2>1, ReleaseStrands DEF Backed
<1>3. CASE ~(Crash(w) /\ pc[w] \in Backed)
  <2>1. /\ pc[w] \in Backed <=> pc'[w] \in Backed
        /\ pc'[w] \in Backed => claim'[w] = claim[w]
    BY <1>3 DEF Crash, Terminate, Restart, Goto, Leave, Backed, TypeOK, WorkerTypeOK, workerVars
  <2> QED
    BY <1>1, <2>1, BusyKept, SameStrands
<1> QED
  BY <1>2, <1>3

(* Whatever fails, a copy is stranded in the processing list only by a     *)
(* worker that stops, one at a time, and none is taken out again           *)
(* (queue/redis.go:49-62, 79-101).                                         *)
THEOREM OnlyStopsStrand == Spec => StrandedByStops
<1>1. TypeOK /\ ClaimsAreBacked /\ [Next]_vars => [Strands]_vars
  <2> SUFFICES ASSUME TypeOK, ClaimsAreBacked, [Next]_vars PROVE Strands
    OBVIOUS
  <2>1. ASSUME UNCHANGED <<processing, workerVars>> PROVE Strands
    BY <2>1, SameStrands DEF Busy, workerVars
  <2>2. ASSUME NEW d \in Documents, Request(d)
        PROVE  UNCHANGED <<processing, workerVars>>
    BY <2>2 DEF Request, Create, Reject, PutObject, InsertRow, Compensate, EnqueueJob, Enqueue,
                Delete, Abort, HangUp, queueVars
  <2>3. (\E d \in Documents : Reenqueue(d)) \/ PushMalformed \/ UNCHANGED vars
          => UNCHANGED <<processing, workerVars>>
    BY DEF Reenqueue, PushMalformed, Inject, vars, workerVars
  <2> QED
    BY <2>1, <2>2, <2>3, WorkStrands, FaultStrands DEF Next
<1> QED
  BY <1>1, TypeCorrect, Backing, PTL DEF Spec, StrandedByStops, Strands
-----------------------------------------------------------------------------
(* Next, the rows that are "processing" although nobody processes them.    *)
Orphaning(d) ==
  \E w \in Workers :
    /\ pc[w] = "claim" \/ Holds(w, d)
    /\ claim[w].document = d
    /\ pc'[w] = "remove" \/ Stops(w)

OrphanStep(d) ==
  /\ Orphan(d)' /\ ~Orphan(d) => Orphaning(d)
  /\ Orphan(d) => Orphan(d)' \/ d \in deleted'

(* A worker that ends without an error has moved the row of its document.  *)
LEMMA HolderOrphans ==
  ASSUME TypeOK, NEW w \in Workers, NEW d \in Documents, Work(w), Holds(w, d), ~Holds(w, d)',
         Live(d), status'[d] = "processing"
  PROVE  pc'[w] = "remove"
<1> USE DEF TypeOK, WorkerTypeOK, TableTypeOK
<1>1. claim[w].document = d
  BY DEF Holds
<1>2. CASE Read(w)
  BY <1>1, <1>2 DEF Read, Goto, Holds
<1>3. CASE MarkReady(w)
  <2>1. PICK reply : /\ MarkDocument(d, "ready", reply)
                     /\ Goto(w, IF reply = "ok" /\ Markable(d) THEN "ack" ELSE "remove")
    BY <1>1, <1>3 DEF MarkReady
  <2>2. ~(reply = "ok" /\ Markable(d))
    BY <2>1 DEF MarkDocument, Applied
  <2> QED
    BY <2>1, <2>2 DEF Goto
<1>4. CASE MarkFailed(w)
  BY <1>4 DEF MarkFailed, Goto
<1> QED
  BY <1>2, <1>3, <1>4 DEF Work, WorkerStep, CheckContext, Consume, Discard, Load, Claim, Ack,
     RetryRemove, RetryPush, Holds

(* A claim that nobody holds was answered with an error.                   *)
LEMMA ClaimOrphans ==
  ASSUME TypeOK, NEW w \in Workers, NEW d \in Documents, Work(w), ~Holds(w, d)',
         status[d] # "processing", status'[d] = "processing"
  PROVE  pc[w] = "claim" /\ claim[w].document = d /\ pc'[w] = "remove"
<1> USE DEF TypeOK, WorkerTypeOK, TableTypeOK
<1>1. Claim(w)
  BY DEF Work, WorkerStep, CheckContext, Consume, Discard, Load, Read, MarkReady, MarkFailed,
         MarkDocument, Ack, RetryRemove, RetryPush, tableVars
<1>2. PICK reply : /\ ClaimDocumentProcessing(claim[w].document, reply)
                   /\ Goto(w, AfterClaim(claim[w].document, reply))
  BY <1>1 DEF Claim
<1>3. claim[w].document = d /\ Claimable(d)
  BY <1>2 DEF ClaimDocumentProcessing
<1>4. reply # "ok"
  BY <1>1, <1>2, <1>3 DEF Claim, AfterClaim, Goto, Holds
<1> QED
  BY <1>1, <1>2, <1>3, <1>4 DEF Claim, AfterClaim, Goto

LEMMA WorkOrphans ==
  ASSUME IInv, NEW w \in Workers, Work(w), NEW d \in Documents
  PROVE  OrphanStep(d)
<1>1. TypeOK /\ OthersKeep(w) /\ deleted' = deleted
  BY WorkOthers, WorkRows DEF IInv
<1>2. ASSUME Orphan(d)', ~Orphan(d) PROVE Orphaning(d)
  <2>1. ~Holds(w, d)' /\ status'[d] = "processing" /\ Live(d)
    BY <1>1, <1>2, WorkRows DEF Orphan, Live
  <2>2. CASE status[d] = "processing"
    <3>1. PICK v \in Workers : Holds(v, d)
      BY <1>2, <2>1, <2>2 DEF Orphan
    <3>2. v = w
      BY <1>1, <1>2, <3>1 DEF OthersKeep, Orphan
    <3> QED
      BY <1>1, <2>1, <3>1, <3>2, HolderOrphans DEF Orphaning, Holds
  <2>3. CASE status[d] # "processing"
    BY <1>1, <2>1, <2>3, ClaimOrphans DEF Orphaning
  <2> QED
    BY <2>2, <2>3
<1>3. ASSUME Orphan(d) PROVE Orphan(d)'
  <2>1. \A v \in Workers : ~Holds(v, d)
    BY <1>3 DEF Orphan
  <2>2. status'[d] = status[d] /\ ~Holds(w, d)'
    BY <1>1, <1>3, <2>1, WorkOnRows
       DEF KeepsRows, WinsRow, EndsRow, Claimable, tableVars, TypeOK, TableTypeOK, Orphan
  <2> QED
    BY <1>1, <1>3, <2>1, <2>2 DEF OthersKeep, Orphan, Live
<1> QED
  BY <1>2, <1>3 DEF OrphanStep

LEMMA OtherOrphans ==
  ASSUME IInv, [Next]_vars, \A w \in Workers : ~Work(w), NEW d \in Documents
  PROVE  OrphanStep(d)
<1>1. TypeOK /\ UploadOrder
  BY DEF IInv
<1>2. ASSUME UNCHANGED <<tableVars, workerVars>> PROVE OrphanStep(d)
  <2>1. Orphan(d)' <=> Orphan(d)
    BY <1>2 DEF Orphan, Live, Holds, tableVars, workerVars
  <2> QED
    BY <2>1 DEF OrphanStep
<1>3. ASSUME NEW e \in Documents, Request(e) PROVE OrphanStep(d)
  <2>1. \A w \in Workers : Holds(w, d)' <=> Holds(w, d)
    BY <1>1, <1>3, RequestOnRows DEF Holds, workerVars
  <2>2. /\ status'[d] = "processing" <=> status[d] = "processing"
        /\ deleted \subseteq deleted'
    BY <1>1, <1>3, RequestOnRows DEF UploadOrder, TypeOK, TableTypeOK, tableVars
  <2> QED
    BY <2>1, <2>2 DEF OrphanStep, Orphan, Live
<1>4. ASSUME NEW w \in Workers, Crash(w) \/ Terminate(w) \/ Restart(w) PROVE OrphanStep(d)
  <2>1. UNCHANGED tableVars /\ OthersKeep(w) /\ (Holds(w, d)' => Holds(w, d))
    BY <1>1, <1>4, FaultOnRows DEF KeepsRows
  <2>2. CASE Crash(w)
    <3>1. Stops(w)
      BY <1>1, <2>2 DEF Crash, Leave, Stops, TypeOK, WorkerTypeOK
    <3>2. Orphan(d)' /\ ~Orphan(d) => Holds(w, d)
      BY <2>1 DEF OthersKeep, Orphan, Live, tableVars
    <3>3. Orphan(d) => Orphan(d)'
      BY <2>1 DEF OthersKeep, Orphan, Live, tableVars
    <3> QED
      BY <3>1, <3>2, <3>3 DEF OrphanStep, Orphaning, Holds
  <2>3. CASE Terminate(w)
    BY <1>2, <2>3 DEF Terminate
  <2>4. CASE Restart(w)
    <3>1. ~Holds(w, d) /\ ~Holds(w, d)'
      BY <1>1, <2>4 DEF Restart, Goto, Holds, TypeOK, WorkerTypeOK
    <3>2. Orphan(d)' <=> Orphan(d)
      BY <2>1, <3>1 DEF OthersKeep, Orphan, Live, tableVars
    <3> QED
      BY <3>2 DEF OrphanStep
  <2> QED
    BY <1>4, <2>2, <2>3, <2>4
<1> QED
  BY <1>2, <1>3, <1>4, OtherOnRows DEF Next

(* Whatever fails, a row is left "processing" with nobody at it only when  *)
(* PostgreSQL answered with an error or a worker stopped, and stays so     *)
(* until it is deleted (document_worker.go:35-53).                         *)
THEOREM OnlyFaultsOrphan == Spec => OrphanedByFault
<1>1. IInv /\ [Next]_vars => [\A d \in Documents : OrphanStep(d)]_vars
  BY WorkOrphans, OtherOrphans
<1> QED
  BY <1>1, Invariance, PTL DEF Spec, OrphanedByFault, OrphanStep, Orphaning
-----------------------------------------------------------------------------
(* Last, the rows that wait for a job that is nowhere.  An acknowledged    *)
(* job is no loss, as its row was seen beyond "pending", and never goes    *)
(* back (Taken); that needs that a job is pushed only for a row.           *)
HasJob(d) == Queued(d) \/ InProcessing(d) \/ DeadLettered(d) \/ BeingRetried(d)

Taken(d) == d \in deleted \/ status[d] \notin {"none", "pending"}

JobsHaveRows ==
  \A d \in Documents :
    /\ upload[d] \in {"enqueue", "accepted"} => status[d] # "none"
    /\ Queued(d) => status[d] # "none"
    /\ \A w \in Workers : claim[w] \in JobsOf(d) => status[d] # "none"

AckedIsTaken ==
  \A d \in Documents, w \in Workers : pc[w] = "ack" /\ claim[w] \in JobsOf(d) => Taken(d)

RowInv == IInv /\ JobsHaveRows /\ AckedIsTaken

LEMMA RowsLast ==
  ASSUME IInv, [Next]_vars, NEW d \in Documents
  PROVE  /\ status[d] # "none" => status'[d] # "none"
         /\ Taken(d) => Taken(d)'
<1>1. TypeOK /\ UploadOrder
  BY DEF IInv
<1>2. ASSUME NEW w \in Workers, Work(w) \/ Crash(w) \/ Terminate(w) \/ Restart(w)
      PROVE  /\ status[d] # "none" => status'[d] # "none"
             /\ Taken(d) => Taken(d)'
  BY <1>1, <1>2, WorkOnRows, FaultOnRows
     DEF KeepsRows, WinsRow, EndsRow, Taken, tableVars, TypeOK, TableTypeOK
<1>3. ASSUME NEW e \in Documents, Request(e)
      PROVE  /\ status[d] # "none" => status'[d] # "none"
             /\ Taken(d) => Taken(d)'
  BY <1>1, <1>3, RequestOnRows DEF UploadOrder, Taken, tableVars, TypeOK, TableTypeOK
<1> QED
  BY <1>2, <1>3, OtherOnRows DEF Next, Taken, tableVars

(* What is queued after a step was queued before, or was pushed.           *)
LEMMA QueuedAfterAppend ==
  ASSUME TypeOK, NEW d \in Documents, NEW payload \in Payload,
         main' = Append(main, payload), Queued(d)'
  PROVE  Queued(d) \/ payload \in JobsOf(d)
<1>1. PICK i \in DOMAIN main' : main'[i] \in JobsOf(d)
  BY DEF Queued
<1>2. CASE i = Len(main) + 1
  BY <1>1, <1>2 DEF TypeOK, QueueTypeOK
<1>3. CASE i # Len(main) + 1
  BY <1>1, <1>3 DEF TypeOK, QueueTypeOK, Queued
<1> QED
  BY <1>2, <1>3

LEMMA QueuedAfterTail ==
  ASSUME TypeOK, NEW d \in Documents, main # <<>>, main' = Tail(main)
  PROVE  /\ Queued(d)' => Queued(d)
         /\ Queued(d) => Queued(d)' \/ Head(main) \in JobsOf(d)
         /\ Head(main) \in JobsOf(d) => Queued(d)
<1>1. ASSUME Queued(d)' PROVE Queued(d)
  <2>1. PICK i \in DOMAIN main' : main'[i] \in JobsOf(d)
    BY <1>1 DEF Queued
  <2>2. i + 1 \in DOMAIN main /\ main[i + 1] = main'[i]
    BY <2>1 DEF TypeOK, QueueTypeOK
  <2> QED
    BY <2>1, <2>2 DEF Queued
<1>2. Head(main) = main[1] /\ 1 \in DOMAIN main
  BY DEF TypeOK, QueueTypeOK
<1>3. ASSUME Queued(d), Head(main) \notin JobsOf(d) PROVE Queued(d)'
  <2>1. PICK i \in DOMAIN main : main[i] \in JobsOf(d)
    BY <1>3 DEF Queued
  <2>2. i - 1 \in DOMAIN main' /\ main'[i - 1] = main[i]
    BY <1>2, <1>3, <2>1 DEF TypeOK, QueueTypeOK
  <2> QED
    BY <2>1, <2>2 DEF Queued
<1> QED
  BY <1>1, <1>2, <1>3 DEF Queued

LEMMA WorkHasRows ==
  ASSUME RowInv, NEW w \in Workers, Work(w), NEW d \in Documents
  PROVE  /\ Queued(d)' => status[d] # "none"
         /\ \A v \in Workers : claim'[v] \in JobsOf(d) => status[d] # "none"
<1> USE DEF RowInv, IInv
<1>1. OthersKeep(w)
  BY WorkOthers
<1>2. CASE Consume(w)
  <2>1. PICK reply : /\ MoveToProcessing(reply)
                     /\ reply = "ok" => claim'[w] = Head(main) /\ main # <<>>
                     /\ reply # "ok" => claim'[w] = NoJob
    BY <1>2 DEF Consume, Leave, MoveToProcessing, Applied, TypeOK, WorkerTypeOK
  <2>2. main' = main \/ (main # <<>> /\ main' = Tail(main))
    BY <2>1 DEF MoveToProcessing, queueVars
  <2>3. Queued(d)' => Queued(d)
    BY <2>2, QueuedAfterTail DEF Queued
  <2>4. main # <<>> /\ Head(main) \in JobsOf(d) => Queued(d)
    <3>1. main # <<>> => Head(main) = main[1] /\ 1 \in DOMAIN main
      BY DEF TypeOK, QueueTypeOK
    <3> QED
      BY <3>1 DEF Queued
  <2>5. NoJob \notin JobsOf(d)
    BY NoJobAssumption DEF JobsOf, Payload
  <2> QED
    BY <1>1, <2>1, <2>3, <2>4, <2>5 DEF OthersKeep, JobsHaveRows
<1>3. CASE RetryPush(w)
  <2>1. claim'[w] = NoJob /\ claim[w] \in Job /\ \E reply : PushRetry(claim[w], reply)
    BY <1>3 DEF RetryPush, Leave, TypeOK, WorkerTypeOK
  <2>2. NoJob \notin JobsOf(d)
    BY NoJobAssumption DEF JobsOf, Payload
  <2>3. ASSUME Queued(d)' PROVE status[d] # "none"
    <3>1. CASE main' = main
      BY <2>3, <3>1 DEF Queued, JobsHaveRows
    <3>2. CASE main' = Append(main, NextAttempt(claim[w])) /\ ~Exhausted(claim[w])
      <4>1. /\ NextAttempt(claim[w]) \in Payload
            /\ NextAttempt(claim[w]).document = claim[w].document
        BY <2>1, <3>2, NextAttemptType DEF NextAttempt, Job, Payload
      <4>2. Queued(d) \/ claim[w] \in JobsOf(d)
        BY <2>1, <2>3, <3>2, <4>1, QueuedAfterAppend DEF JobsOf
      <4> QED
        BY <4>2 DEF JobsHaveRows
    <3> QED
      BY <2>1, <3>1, <3>2 DEF PushRetry
  <2> QED
    BY <1>1, <2>1, <2>2, <2>3 DEF OthersKeep, JobsHaveRows
<1>4. CASE ~Consume(w) /\ ~RetryPush(w)
  <2>1. main' = main
    BY <1>4 DEF Work, WorkerStep, CheckContext, Discard, Load, Claim, Read, MarkReady, MarkFailed,
       Ack, RetryRemove, RemoveFromProcessing, queueVars
  <2>2. claim'[w] = claim[w] \/ claim'[w] = NoJob
    BY <1>4 DEF Work, WorkerStep, CheckContext, Discard, Load, Claim, Read, MarkReady, MarkFailed,
       Ack, RetryRemove, Goto, Leave, TypeOK, WorkerTypeOK
  <2>3. NoJob \notin JobsOf(d)
    BY NoJobAssumption DEF JobsOf, Payload
  <2> QED
    BY <1>1, <2>1, <2>2, <2>3 DEF OthersKeep, JobsHaveRows, Queued
<1> QED
  BY <1>2, <1>3, <1>4

(* A job is acknowledged after its row was seen ready, marked ready, or    *)
(* not to be claimed.                                                      *)
LEMMA AckTakes ==
  ASSUME RowInv, NEW w \in Workers, Work(w), NEW d \in Documents,
         pc'[w] = "ack", claim'[w] \in JobsOf(d)
  PROVE  Taken(d)'
<1> USE DEF RowInv, IInv, TypeOK, WorkerTypeOK, TableTypeOK
<1>1. CASE Load(w)
  <2>1. claim'[w] = claim[w] /\ claim[w].document = d
    BY <1>1 DEF Load, Goto, JobsOf
  <2>2. status'[d] = "ready"
    BY <1>1, <2>1 DEF Load, Goto, AfterLoad, tableVars
  <2> QED
    BY <2>2 DEF Taken
<1>2. CASE Claim(w)
  <2>1. claim'[w] = claim[w] /\ claim[w].document = d /\ claim[w] \in JobsOf(d)
    BY <1>2 DEF Claim, Goto, JobsOf
  <2>2. status[d] # "none"
    BY <2>1 DEF JobsHaveRows
  <2>3. ~Claimable(d)
    BY <1>2, <2>1 DEF Claim, Goto, AfterClaim
  <2>4. UNCHANGED tableVars
    BY <1>2, <2>1, <2>3 DEF Claim, ClaimDocumentProcessing, tableVars
  <2> QED
    BY <2>2, <2>3, <2>4 DEF Taken, Claimable, tableVars
<1>3. CASE MarkReady(w)
  <2>1. claim'[w] = claim[w] /\ claim[w].document = d
    BY <1>3 DEF MarkReady, Goto, JobsOf
  <2>2. status'[d] = "ready"
    BY <1>3, <2>1 DEF MarkReady, Goto, MarkDocument, Applied
  <2> QED
    BY <2>2 DEF Taken
<1> QED
  BY <1>1, <1>2, <1>3 DEF Work, WorkerStep, CheckContext, Consume, Discard, Read, MarkFailed, Ack,
     RetryRemove, RetryPush, Goto, Leave

LEMMA PushesKeepRows ==
  ASSUME RowInv, [Next]_vars, UNCHANGED <<workerVars, upload>>, NEW payload \in Payload,
         main' = Append(main, payload),
         \A d \in Documents : payload \in JobsOf(d) => status[d] # "none"
  PROVE  JobsHaveRows' /\ AckedIsTaken'
<1>1. \A d \in Documents : Queued(d)' => status[d] # "none"
  BY QueuedAfterAppend DEF RowInv, IInv, JobsHaveRows
<1> QED
  BY <1>1, RowsLast DEF RowInv, JobsHaveRows, AckedIsTaken, workerVars

LEMMA RequestHasRows ==
  ASSUME RowInv, NEW e \in Documents, Request(e)
  PROVE  JobsHaveRows' /\ AckedIsTaken'
<1> USE DEF RowInv, IInv
<1>1. [Next]_vars /\ UNCHANGED workerVars
  BY RequestOnRows DEF Next
<1>2. CASE EnqueueJob(e)
  <2>1. /\ [document |-> e, attempt |-> 1] \in Payload
        /\ \A d \in Documents : [document |-> e, attempt |-> 1] \in JobsOf(d) => d = e
    BY MaxAttemptsAssumption DEF Payload, Job, JobsOf
  <2>2. status[e] # "none" /\ UNCHANGED tableVars
    BY <1>2 DEF EnqueueJob, Advance, JobsHaveRows
  <2>3. \/ main' = main
        \/ main' = Append(main, [document |-> e, attempt |-> 1])
    BY <1>2 DEF EnqueueJob, Enqueue
  <2>4. \A d \in Documents : Queued(d)' => status[d] # "none"
    BY <2>1, <2>2, <2>3, QueuedAfterAppend DEF JobsHaveRows, Queued
  <2>5. \A d \in Documents :
          upload'[d] \in {"enqueue", "accepted"} => d = e \/ upload[d] \in {"enqueue", "accepted"}
    BY <1>2 DEF EnqueueJob, Advance, TypeOK, UploadTypeOK
  <2> QED
    BY <1>1, <2>2, <2>4, <2>5 DEF JobsHaveRows, AckedIsTaken, Taken, workerVars, tableVars
<1>3. CASE ~EnqueueJob(e)
  <2>1. UNCHANGED main
    BY <1>3 DEF Request, Create, Reject, PutObject, InsertRow, Compensate, Delete, Abort,
         HangUp, queueVars
  <2>2. ASSUME NEW d \in Documents, upload'[d] \in {"enqueue", "accepted"}
        PROVE  status'[d] # "none"
    <3>1. CASE upload[d] \in {"enqueue", "accepted"}
      BY <1>1, <3>1, RowsLast DEF JobsHaveRows
    <3>2. CASE upload[d] \notin {"enqueue", "accepted"}
      <4>1. InsertRow(e) /\ d = e /\ upload'[d] = "enqueue"
        BY <1>3, <2>2, <3>2 DEF Request, Create, Reject, PutObject, InsertRow, Compensate, Delete,
             Abort, HangUp, Advance, TypeOK, UploadTypeOK
      <4>2. \E reply : /\ upload' = [upload EXCEPT ![d] = IF reply = "ok" THEN "enqueue"
                                                          ELSE "compensate"]
                       /\ CreateDocument(d, reply)
        BY <4>1 DEF InsertRow, Advance
      <4>3. CreateDocument(d, "ok")
        BY <4>1, <4>2 DEF TypeOK, UploadTypeOK
      <4> QED
        BY <4>3 DEF CreateDocument, Applied, TypeOK, TableTypeOK
    <3> QED
      BY <3>1, <3>2
  <2> QED
    BY <1>1, <2>1, <2>2, RowsLast DEF JobsHaveRows, AckedIsTaken, Queued, workerVars
<1> QED
  BY <1>2, <1>3

LEMMA RowStep ==
  ASSUME RowInv, [Next]_vars
  PROVE  RowInv'
<1> USE DEF RowInv
<1>1. ASSUME NEW w \in Workers, Work(w) PROVE JobsHaveRows' /\ AckedIsTaken'
  <2>1. OthersKeep(w) /\ UNCHANGED upload
    BY <1>1, WorkOthers, WorkRows DEF IInv
  <2>2. JobsHaveRows'
    BY <1>1, <2>1, WorkHasRows, RowsLast DEF JobsHaveRows
  <2>3. ASSUME NEW d \in Documents, NEW v \in Workers, pc'[v] = "ack", claim'[v] \in JobsOf(d)
        PROVE  Taken(d)'
    BY <1>1, <2>1, <2>3, AckTakes, RowsLast DEF OthersKeep, AckedIsTaken
  <2> QED
    BY <2>2, <2>3 DEF AckedIsTaken
<1>2. ASSUME NEW w \in Workers, Crash(w) \/ Terminate(w) \/ Restart(w)
      PROVE  JobsHaveRows' /\ AckedIsTaken'
  <2>1. \A v \in Workers : /\ claim'[v] = claim[v] \/ claim'[v] = NoJob
                           /\ pc'[v] = "ack" => pc[v] = "ack" /\ claim'[v] = claim[v]
    BY <1>2 DEF Crash, Terminate, Restart, Goto, Leave, IInv, TypeOK, WorkerTypeOK, workerVars
  <2>2. \A d \in Documents : NoJob \notin JobsOf(d)
    BY NoJobAssumption DEF JobsOf, Payload
  <2>3. UNCHANGED <<main, upload>>
    BY <1>2 DEF Crash, Terminate, Restart, queueVars
  <2> QED
    BY <2>1, <2>2, <2>3, RowsLast DEF JobsHaveRows, AckedIsTaken, Queued
<1>3. ASSUME NEW d \in Documents, Reenqueue(d) PROVE JobsHaveRows' /\ AckedIsTaken'
  <2>1. /\ [document |-> d, attempt |-> 1] \in Payload
        /\ \A e \in Documents : [document |-> d, attempt |-> 1] \in JobsOf(e) => e = d
    BY MaxAttemptsAssumption DEF Payload, Job, JobsOf
  <2> QED
    BY <1>3, <2>1, PushesKeepRows DEF Reenqueue, Inject, Live
<1>4. ASSUME PushMalformed PROVE JobsHaveRows' /\ AckedIsTaken'
  <2>1. Malformed \in Payload /\ \A d \in Documents : Malformed \notin JobsOf(d)
    BY MalformedAssumption DEF Payload, JobsOf
  <2> QED
    BY <1>4, <2>1, PushesKeepRows DEF PushMalformed, Inject
<1>5. ASSUME UNCHANGED vars PROVE JobsHaveRows' /\ AckedIsTaken'
  BY <1>5 DEF JobsHaveRows, AckedIsTaken, Taken, Queued, vars
<1>6. JobsHaveRows' /\ AckedIsTaken'
  BY <1>1, <1>2, <1>3, <1>4, <1>5, RequestHasRows DEF Next
<1> QED
  BY <1>6, InvStep

LEMMA RowInit == Init => RowInv
<1>1. ASSUME Init PROVE JobsHaveRows /\ AckedIsTaken
  <2>1. \A d \in Documents : NoJob \notin JobsOf(d)
    BY NoJobAssumption DEF JobsOf, Payload
  <2> QED
    BY <1>1, <2>1 DEF Init, QueueInit, UploadInit, WorkerInit, JobsHaveRows, AckedIsTaken, Queued
<1> QED
  BY <1>1, InvInit DEF RowInv

(* The processing list loses no copy but one of the job of the worker.     *)
LEMMA RemovingLoses ==
  ASSUME TypeOK, NEW w \in Workers, NEW reply, RemoveFromProcessing(claim[w], reply),
         NEW d \in Documents, claim[w] \notin JobsOf(d)
  PROVE  /\ Queued(d)' <=> Queued(d)
         /\ InProcessing(d)' <=> InProcessing(d)
         /\ DeadLettered(d)' <=> DeadLettered(d)
<1>1. \A job \in JobsOf(d) : processing'[job] = processing[job]
  BY DEF RemoveFromProcessing, LRem, TypeOK, QueueTypeOK, JobsOf, Payload
<1> QED
  BY <1>1 DEF RemoveFromProcessing, Queued, InProcessing, DeadLettered

LEMMA ConsumeLoses ==
  ASSUME TypeOK, NEW w \in Workers, NEW d \in Documents, Consume(w),
         Queued(d) \/ InProcessing(d) \/ DeadLettered(d)
  PROVE  HasJob(d)'
<1>1. CASE UNCHANGED queueVars
  BY <1>1 DEF HasJob, Queued, InProcessing, DeadLettered, queueVars
<1>2. CASE ~UNCHANGED queueVars
  <2>1. /\ main # <<>> /\ main' = Tail(main) /\ UNCHANGED deadLetter
        /\ processing' = [processing EXCEPT ![Head(main)] = @ + 1]
    BY <1>2 DEF Consume, MoveToProcessing
  <2>2. Head(main) \in Payload
    BY <2>1 DEF TypeOK, QueueTypeOK
  <2>3. processing'[Head(main)] > 0
    BY <2>1, <2>2 DEF TypeOK, QueueTypeOK
  <2>4. \A job \in JobsOf(d) : processing[job] > 0 => processing'[job] > 0
    BY <2>1, <2>2 DEF TypeOK, QueueTypeOK, JobsOf, Payload
  <2> QED
    BY <2>1, <2>3, <2>4, QueuedAfterTail DEF HasJob, InProcessing, DeadLettered
<1> QED
  BY <1>1, <1>2

LEMMA PushLoses ==
  ASSUME TypeOK, NEW w \in Workers, NEW d \in Documents, RetryPush(w)
  PROVE  /\ Queued(d) \/ InProcessing(d) \/ DeadLettered(d) => HasJob(d)'
         /\ claim[w] \in JobsOf(d) => HasJob(d)' \/ Stops(w)
<1>1. PICK reply : /\ PushRetry(claim[w], reply)
                   /\ Leave(w, IF reply = "ok" THEN "top" ELSE "stopped")
  BY DEF RetryPush
<1>2. /\ claim[w] \in Job /\ UNCHANGED processing
      /\ reply # "ok" => Stops(w)
  BY <1>1 DEF RetryPush, PushRetry, Leave, Stops, TypeOK, WorkerTypeOK
<1>3. CASE ~Applied(reply)
  BY <1>1, <1>2, <1>3
     DEF PushRetry, Applied, HasJob, Queued, InProcessing, DeadLettered
<1>4. CASE Applied(reply) /\ Exhausted(claim[w])
  <2>1. main' = main /\ deadLetter' = [deadLetter EXCEPT ![claim[w]] = @ + 1]
    BY <1>1, <1>4 DEF PushRetry
  <2>2. /\ \A job \in Job : deadLetter[job] > 0 => deadLetter'[job] > 0
        /\ deadLetter'[claim[w]] > 0
    BY <1>2, <2>1 DEF TypeOK, QueueTypeOK
  <2> QED
    BY <1>2, <2>1, <2>2 DEF HasJob, Queued, InProcessing, DeadLettered, JobsOf
<1>5. CASE Applied(reply) /\ ~Exhausted(claim[w])
  <2>1. main' = Append(main, NextAttempt(claim[w])) /\ deadLetter' = deadLetter
    BY <1>1, <1>5 DEF PushRetry
  <2>2. NextAttempt(claim[w]) \in Job /\ NextAttempt(claim[w]).document = claim[w].document
    BY <1>2, <1>5, NextAttemptType DEF NextAttempt, Job
  <2>3. Queued(d) => Queued(d)'
    BY <2>1, <2>2, AppendKeepsQueued DEF Payload
  <2>4. claim[w] \in JobsOf(d) => Queued(d)'
    BY <2>1, <2>2, AppendQueues DEF JobsOf
  <2> QED
    BY <1>2, <2>1, <2>3, <2>4 DEF HasJob, InProcessing, DeadLettered
<1> QED
  BY <1>3, <1>4, <1>5

(* A document loses its last job to a worker that acknowledges it, or that *)
(* stops before it has pushed it again.                                    *)
LEMMA WorkLosesJob ==
  ASSUME TypeOK, NEW w \in Workers, Work(w), NEW d \in Documents, HasJob(d), ~HasJob(d)'
  PROVE  /\ claim[w] \in JobsOf(d)
         /\ pc[w] = "ack" \/ (pc[w] \in {"remove", "push"} /\ Stops(w))
<1> USE DEF HasJob
<1>1. OthersKeep(w)
  BY WorkOthers
<1>2. ASSUME NEW v \in Workers \ {w}, pc[v] = "push", claim[v] \in JobsOf(d) PROVE FALSE
  BY <1>1, <1>2 DEF OthersKeep, BeingRetried
<1>3. CASE Consume(w)
  BY <1>2, <1>3, ConsumeLoses DEF BeingRetried, Consume
<1>4. CASE RetryPush(w)
  BY <1>2, <1>4, PushLoses DEF BeingRetried, RetryPush
<1>5. CASE Discard(w) \/ Ack(w) \/ RetryRemove(w)
  <2>1. PICK reply : RemoveFromProcessing(claim[w], reply)
    BY <1>5 DEF Discard, Ack, RetryRemove
  <2>2. claim[w] \in JobsOf(d)
    BY <1>2, <1>5, <2>1, RemovingLoses DEF BeingRetried, Discard, Ack, RetryRemove
  <2>3. ~Discard(w)
    BY <2>2, MalformedAssumption DEF Discard, TypeOK, WorkerTypeOK, JobsOf
  <2>4. ASSUME RetryRemove(w) PROVE Stops(w)
    <3>1. ~(pc'[w] = "push" /\ claim'[w] = claim[w])
      BY <2>2 DEF BeingRetried
    <3> QED
      BY <2>4, <3>1 DEF RetryRemove, Goto, Leave, Stops, TypeOK, WorkerTypeOK
  <2> QED
    BY <1>5, <2>2, <2>3, <2>4 DEF Ack, RetryRemove
<1>6. CASE CheckContext(w) \/ Load(w) \/ Claim(w) \/ Read(w) \/ MarkReady(w) \/ MarkFailed(w)
  <2>1. UNCHANGED queueVars /\ pc[w] # "push"
    BY <1>6 DEF CheckContext, Load, Claim, Read, MarkReady, MarkFailed
  <2> QED
    BY <1>2, <2>1 DEF BeingRetried, Queued, InProcessing, DeadLettered, queueVars
<1> QED
  BY <1>3, <1>4, <1>5, <1>6 DEF Work, WorkerStep

JoblessStep(d) ==
  Jobless(d)' /\ ~Jobless(d) =>
    \/ upload'[d] # upload[d] /\ upload'[d] # "accepted"
    \/ \E w \in Workers :
         /\ pc[w] \in {"remove", "push"}
         /\ claim[w] \in JobsOf(d)
         /\ Stops(w)

LEMMA WorkReports ==
  ASSUME RowInv, NEW w \in Workers, Work(w), NEW d \in Documents
  PROVE  JoblessStep(d)
<1> SUFFICES ASSUME Jobless(d)', ~Jobless(d)
             PROVE  pc[w] \in {"remove", "push"} /\ claim[w] \in JobsOf(d) /\ Stops(w)
  BY DEF JoblessStep
<1> USE DEF RowInv, IInv
<1>1. Live(d) /\ status[d] = "pending" /\ upload[d] # "enqueue"
  BY WorkOnRows, WorkRows
     DEF Jobless, Live, KeepsRows, WinsRow, EndsRow, tableVars, TypeOK, TableTypeOK
<1>2. HasJob(d) /\ ~HasJob(d)'
  BY <1>1 DEF Jobless, HasJob
<1>3. ~(pc[w] = "ack" /\ claim[w] \in JobsOf(d))
  BY <1>1 DEF AckedIsTaken, Taken, Live
<1> QED
  BY <1>2, <1>3, WorkLosesJob

LEMMA FaultReports ==
  ASSUME TypeOK, NEW w \in Workers, Crash(w) \/ Terminate(w) \/ Restart(w), NEW d \in Documents
  PROVE  JoblessStep(d)
<1>1. UNCHANGED <<tableVars, upload, queueVars>> /\ OthersKeep(w)
  BY FaultOnRows DEF Crash, Terminate, Restart
<1> SUFFICES ASSUME Jobless(d)', ~Jobless(d)
             PROVE  pc[w] = "push" /\ claim[w] \in JobsOf(d) /\ Stops(w)
  BY DEF JoblessStep
<1>2. BeingRetried(d) /\ ~BeingRetried(d)'
  BY <1>1 DEF Jobless, Live, Queued, InProcessing, DeadLettered, tableVars, queueVars
<1>3. /\ pc[w] = "push" /\ claim[w] \in JobsOf(d)
      /\ ~(pc'[w] = "push" /\ claim'[w] = claim[w])
  BY <1>1, <1>2 DEF BeingRetried, OthersKeep
<1> QED
  BY <1>3 DEF Crash, Terminate, Restart, Leave, Stops, TypeOK, WorkerTypeOK, workerVars

LEMMA PushReports ==
  ASSUME TypeOK, UNCHANGED <<tableVars, upload, processing, deadLetter, workerVars>>,
         NEW payload \in Payload, main' = Append(main, payload), NEW d \in Documents
  PROVE  Jobless(d)' => Jobless(d)
<1>1. Queued(d) => Queued(d)'
  BY AppendKeepsQueued
<1> QED
  BY <1>1 DEF Jobless, Live, InProcessing, DeadLettered, BeingRetried, tableVars, workerVars

LEMMA RequestReports ==
  ASSUME TypeOK, NEW e \in Documents, Request(e), NEW d \in Documents
  PROVE  JoblessStep(d)
<1>1. UNCHANGED <<processing, deadLetter, workerVars>>
  BY RequestOnRows DEF Request, Create, Reject, PutObject, InsertRow, Compensate, EnqueueJob,
     Enqueue, Delete, Abort, HangUp, queueVars
<1>2. CASE EnqueueJob(e)
  <2>1. [document |-> e, attempt |-> 1] \in JobsOf(e)
    BY MaxAttemptsAssumption DEF JobsOf, Job
  <2>2. UNCHANGED tableVars
    BY <1>2 DEF EnqueueJob
  <2>3. CASE d = e
    <3>1. PICK reply : /\ Enqueue(d, reply)
                       /\ Advance(d, "enqueue", IF reply = "ok" THEN "accepted" ELSE "unqueued")
      BY <1>2, <2>3 DEF EnqueueJob
    <3>2. CASE reply = "ok"
      <4>1. Queued(d)'
        BY <2>1, <2>3, <3>1, <3>2, AppendQueues DEF Enqueue, Applied
      <4> QED
        BY <4>1 DEF JoblessStep, Jobless
    <3>3. CASE reply # "ok"
      <4>1. upload'[d] # upload[d] /\ upload'[d] # "accepted"
        BY <3>1, <3>3 DEF Advance, TypeOK, UploadTypeOK
      <4> QED
        BY <4>1 DEF JoblessStep
    <3> QED
      BY <3>2, <3>3
  <2>4. CASE d # e
    <3>1. upload'[d] = upload[d]
      BY <1>2, <2>4 DEF EnqueueJob, Advance, TypeOK, UploadTypeOK
    <3>2. Queued(d) => Queued(d)'
      <4>1. main' = main \/ main' = Append(main, [document |-> e, attempt |-> 1])
        BY <1>2 DEF EnqueueJob, Enqueue
      <4> QED
        BY <2>1, <4>1, AppendKeepsQueued DEF JobsOf, Payload, Queued
    <3>3. Jobless(d)' => Jobless(d)
      BY <1>1, <2>2, <3>1, <3>2
         DEF Jobless, Live, InProcessing, DeadLettered, BeingRetried, tableVars, workerVars
    <3> QED
      BY <3>3 DEF JoblessStep
  <2> QED
    BY <2>3, <2>4
<1>3. CASE ~EnqueueJob(e)
  <2>1. UNCHANGED main
    BY <1>3 DEF Request, Create, Reject, PutObject, InsertRow, Compensate, Delete, Abort,
         HangUp, queueVars
  <2>2. upload'[d] # upload[d] => upload'[d] # "accepted"
    BY <1>3 DEF Request, Create, Reject, PutObject, InsertRow, Compensate, Delete, Abort,
         HangUp, Advance, TypeOK, UploadTypeOK
  <2>3. ASSUME upload'[d] = upload[d] PROVE Jobless(d)' => Jobless(d)
    <3>1. ~(InsertRow(e) /\ d = e)
      BY <2>3 DEF InsertRow, Advance, TypeOK, UploadTypeOK
    <3>2. status'[d] = status[d] /\ deleted \subseteq deleted'
      BY <1>3, <3>1 DEF Request, Create, Reject, PutObject, InsertRow, Compensate, Delete, Abort,
           HangUp, CreateDocument, SoftDeleteDocument, tableVars, TypeOK, TableTypeOK
    <3> QED
      BY <1>1, <2>1, <2>3, <3>2
         DEF Jobless, Live, Queued, InProcessing, DeadLettered, BeingRetried, workerVars
  <2> QED
    BY <2>2, <2>3 DEF JoblessStep
<1> QED
  BY <1>2, <1>3

(* Whatever fails, a row is left "pending" without a job only when its     *)
(* upload ends in anything but a 201, or with a worker that stops inside   *)
(* Retry (document_service.go:74-85, queue/redis.go:79-97).                *)
THEOREM NoSilentLoss == Spec => JoblessIsReported
<1>1. RowInv /\ [Next]_vars => [\A d \in Documents : JoblessStep(d)]_vars
  <2> SUFFICES ASSUME RowInv, Next, NEW d \in Documents PROVE JoblessStep(d)
    OBVIOUS
  <2> USE DEF RowInv, IInv
  <2>1. ASSUME NEW e \in Documents, Reenqueue(e) PROVE JoblessStep(d)
    <3>1. [document |-> e, attempt |-> 1] \in Payload
      BY MaxAttemptsAssumption DEF Payload, Job
    <3> QED
      BY <2>1, <3>1, PushReports DEF Reenqueue, Inject, JoblessStep
  <2>2. ASSUME PushMalformed PROVE JoblessStep(d)
    BY <2>2, PushReports DEF PushMalformed, Inject, JoblessStep, Payload
  <2> QED
    BY <2>1, <2>2, WorkReports, FaultReports, RequestReports DEF Next
<1>2. Init => RowInv
  BY RowInit
<1>3. RowInv /\ [Next]_vars => RowInv'
  BY RowStep
<1> QED
  BY <1>1, <1>2, <1>3, PTL DEF Spec, JoblessIsReported, JoblessStep
=============================================================================
