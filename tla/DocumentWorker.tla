--------------------------- MODULE DocumentWorker ---------------------------
(***************************************************************************)
(* internal/service/document_worker.go: Run and Process, with the calls    *)
(* they make on the queue, the table and the object store.  pc[w] is the   *)
(* next thing worker w does; claim[w] the payload of its ClaimedDocument-  *)
(* Job.  Process and Retry are cut at every call, so that other workers,   *)
(* requests and crashes may come in between.                               *)
(*                                                                         *)
(*   top -> consume -> load -> claim -> read -> markReady ---> ack -> top  *)
(*             |         |       |        |         |           ^          *)
(*             |         |       |        v         |  (skipped)|          *)
(*          discard      |       |    markFailed    |                      *)
(*             |         +-------+---> remove <-----+                      *)
(*             v                         |                                 *)
(*          stopped                      +--> push -> top                  *)
(*                                                                         *)
(* An error of Consume, Ack or Retry ends Run, and with it the process.    *)
(***************************************************************************)
EXTENDS RedisQueue, DocumentTable, ObjectStorage

CONSTANT NoJob   \* claim[w] of a worker that has no job

ASSUME NoJobAssumption == NoJob \notin Payload

VARIABLES pc, claim

workerVars == <<pc, claim>>

\* The labels at which the job of the worker is a copy in the processing list.
Backed == {"discard", "load", "claim", "read", "markReady", "markFailed", "ack", "remove"}

Labels == Backed \cup {"top", "consume", "push", "stopped"}

WorkerTypeOK ==
  /\ pc \in [Workers -> Labels]
  /\ claim \in [Workers -> Payload \cup {NoJob}]
  /\ \A w \in Workers :
       IF pc[w] \in {"top", "consume", "stopped"} THEN claim[w] = NoJob
       ELSE IF pc[w] = "discard" THEN claim[w] = Malformed
       ELSE claim[w] \in Job

WorkerInit ==
  /\ pc = [w \in Workers |-> "top"]
  /\ claim = [w \in Workers |-> NoJob]

Goto(w, label) == pc' = [pc EXCEPT ![w] = label] /\ UNCHANGED claim

(* The job is over for this worker.                                        *)
Leave(w, label) ==
  /\ pc' = [pc EXCEPT ![w] = label]
  /\ claim' = [claim EXCEPT ![w] = NoJob]

(* The document the worker is processing: the copy of the row it loaded    *)
(* and the claim it won are in its local variables.                        *)
Holds(w, d) ==
  /\ pc[w] \in {"read", "markReady", "markFailed"}
  /\ claim[w].document = d

(* The ctx.Err() test at the head of the loop of Run.                      *)
CheckContext(w) ==
  /\ pc[w] = "top"
  /\ Goto(w, IF w \in cancelled THEN "stopped" ELSE "consume")
  /\ UNCHANGED <<queueVars, tableVars, stored>>

(* The BLMOVE has no timeout and waits for a payload.  One that is waiting *)
(* when the context is cancelled may be answered all the same.             *)
Consume(w) ==
  /\ pc[w] = "consume"
  /\ \E reply \in Replies(w, "redis") \cup {"ok"} :
       /\ MoveToProcessing(reply)
       /\ IF reply # "ok"
            THEN Leave(w, "stopped")
            ELSE /\ claim' = [claim EXCEPT ![w] = Head(main)]
                 /\ pc' = [pc EXCEPT ![w] =
                             IF Head(main) = Malformed THEN "discard" ELSE "load"]
  /\ UNCHANGED <<tableVars, stored>>

(* Consume drops a payload it cannot decode, and its error ends Run.       *)
Discard(w) ==
  /\ pc[w] = "discard"
  /\ \E reply \in Replies(w, "redis") : RemoveFromProcessing(claim[w], reply)
  /\ Leave(w, "stopped")
  /\ UNCHANGED <<tableVars, stored>>

\* Mutated form: a failed document is skipped like a ready one.
AfterLoadSkipsFailed(d, reply) ==
  IF reply # "ok" \/ ~Live(d) THEN "remove"
  ELSE IF status[d] \in {"ready", "failed"} THEN "ack"
  ELSE "claim"

(* Where Process goes after GetByID.                                       *)
AfterLoad(d, reply) ==
  IF reply # "ok" \/ ~Live(d) THEN "remove"
  ELSE IF status[d] = "ready" THEN "ack"
  ELSE "claim"

Load(w) ==
  /\ pc[w] = "load"
  /\ \E reply \in Replies(w, "database") : Goto(w, AfterLoad(claim[w].document, reply))
  /\ UNCHANGED <<queueVars, tableVars, stored>>

\* Mutated form: the number of rows affected is not looked at.
AfterClaimUnchecked(d, reply) == IF reply = "ok" THEN "read" ELSE "remove"

(* No row affected: another worker has the document, or it is finished.    *)
AfterClaim(d, reply) ==
  IF reply # "ok" THEN "remove" ELSE IF Claimable(d) THEN "read" ELSE "ack"

Claim(w) ==
  /\ pc[w] = "claim"
  /\ \E reply \in Replies(w, "database") :
       /\ ClaimDocumentProcessing(claim[w].document, reply)
       /\ Goto(w, AfterClaim(claim[w].document, reply))
  /\ UNCHANGED <<queueVars, stored>>

(* Open, the copy through the hash, and the comparison of the sizes.       *)
Read(w) ==
  /\ pc[w] = "read"
  /\ \E reply \in Replies(w, "storage") :
       Goto(w, IF reply = "ok" /\ Readable(claim[w].document)
                 THEN "markReady" ELSE "markFailed")
  /\ UNCHANGED <<queueVars, tableVars, stored>>

\* Mutated form: the error of MarkReady is not looked at.
MarkReadyUnchecked(w) ==
  /\ pc[w] = "markReady"
  /\ \E reply \in Replies(w, "database") : MarkDocument(claim[w].document, "ready", reply)
  /\ Goto(w, "ack")
  /\ UNCHANGED <<queueVars, stored>>

(* A row that is gone (soft-deleted meanwhile) is an error like any other. *)
MarkReady(w) ==
  /\ pc[w] = "markReady"
  /\ \E reply \in Replies(w, "database") :
       /\ MarkDocument(claim[w].document, "ready", reply)
       /\ Goto(w, IF reply = "ok" /\ Markable(claim[w].document) THEN "ack" ELSE "remove")
  /\ UNCHANGED <<queueVars, stored>>

(* fail returns an error whether or not the failure could be recorded.     *)
MarkFailed(w) ==
  /\ pc[w] = "markFailed"
  /\ \E reply \in Replies(w, "database") : MarkDocument(claim[w].document, "failed", reply)
  /\ Goto(w, "remove")
  /\ UNCHANGED <<queueVars, stored>>

\* Mutated form: the error of Ack is logged and the worker goes on.
AckUnchecked(w) ==
  /\ pc[w] = "ack"
  /\ \E reply \in Replies(w, "redis") :
       /\ RemoveFromProcessing(claim[w], reply)
       /\ Leave(w, "top")
  /\ UNCHANGED <<tableVars, stored>>

Ack(w) ==
  /\ pc[w] = "ack"
  /\ \E reply \in Replies(w, "redis") :
       /\ RemoveFromProcessing(claim[w], reply)
       /\ Leave(w, IF reply = "ok" THEN "top" ELSE "stopped")
  /\ UNCHANGED <<tableVars, stored>>

(* The first command of Retry.                                             *)
RetryRemove(w) ==
  /\ pc[w] = "remove"
  /\ \E reply \in Replies(w, "redis") :
       /\ RemoveFromProcessing(claim[w], reply)
       /\ IF reply = "ok" THEN Goto(w, "push") ELSE Leave(w, "stopped")
  /\ UNCHANGED <<tableVars, stored>>

(* The second command of Retry.                                            *)
RetryPush(w) ==
  /\ pc[w] = "push"
  /\ \E reply \in Replies(w, "redis") :
       /\ PushRetry(claim[w], reply)
       /\ Leave(w, IF reply = "ok" THEN "top" ELSE "stopped")
  /\ UNCHANGED <<tableVars, stored>>

WorkerStep(w) ==
  \/ CheckContext(w)
  \/ Consume(w)
  \/ Discard(w)
  \/ Load(w)
  \/ Claim(w)
  \/ Read(w)
  \/ MarkReady(w)
  \/ MarkFailed(w)
  \/ Ack(w)
  \/ RetryRemove(w)
  \/ RetryPush(w)
=============================================================================
