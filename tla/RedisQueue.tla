----------------------------- MODULE RedisQueue -----------------------------
(***************************************************************************)
(* internal/queue/redis.go: a reliable queue made of three Redis lists.    *)
(* One operator per Redis command the adapter sends, so that an operation  *)
(* of two commands (Retry) is two steps of the worker that calls it.       *)
(*                                                                         *)
(* The main list is a sequence whose head is the RIGHT end of the Redis    *)
(* list: LPUSH appends, BLMOVE ... RIGHT LEFT takes the head.  The         *)
(* processing and the dead-letter list are only pushed to and removed from *)
(* by value, so they are the number of copies of each payload they hold.   *)
(***************************************************************************)
EXTENDS Dependencies, Integers, Sequences

CONSTANTS MaxAttempts,  \* REDIS_DOCUMENT_MAX_ATTEMPTS
          Malformed     \* a payload Consume cannot decode or validate

ASSUME MaxAttemptsAssumption == MaxAttempts \in Nat \ {0}

Job == [document : Documents, attempt : 1 .. MaxAttempts]

ASSUME MalformedAssumption == Malformed \notin Job

Payload == Job \cup {Malformed}

VARIABLES main, processing, deadLetter

queueVars == <<main, processing, deadLetter>>

QueueTypeOK ==
  /\ main \in Seq(Payload)
  /\ processing \in [Payload -> Nat]
  /\ deadLetter \in [Job -> Nat]

QueueInit ==
  /\ main = <<>>
  /\ processing = [payload \in Payload |-> 0]
  /\ deadLetter = [job \in Job |-> 0]

(* Enqueue: LPUSH of the first attempt on the main list. *)
Enqueue(d, reply) ==
  /\ main' = IF Applied(reply)
               THEN Append(main, [document |-> d, attempt |-> 1])
               ELSE main
  /\ UNCHANGED <<processing, deadLetter>>

(* Consume: BLMOVE main processing RIGHT LEFT 0, which blocks while the    *)
(* main list is empty; a refused call needs no element.                    *)
MoveToProcessing(reply) ==
  \/ /\ reply = "refused"
     /\ UNCHANGED queueVars
  \/ /\ Applied(reply)
     /\ main # <<>>
     /\ main' = Tail(main)
     /\ processing' = [processing EXCEPT ![Head(main)] = @ + 1]
     /\ UNCHANGED deadLetter

\* Mutated form: LREM with count 0, which removes every copy.
LRemAll(payload) == [processing EXCEPT ![payload] = 0]

(* The processing list after LREM processing 1 payload. *)
LRem(payload) ==
  [processing EXCEPT ![payload] = IF @ > 0 THEN @ - 1 ELSE 0]

RemoveFromProcessing(payload, reply) ==
  /\ processing' = IF Applied(reply) THEN LRem(payload) ELSE processing
  /\ UNCHANGED <<main, deadLetter>>

\* Mutated form: one attempt more than configured.
ExhaustedLate(job) == job.attempt > MaxAttempts

Exhausted(job) == job.attempt >= MaxAttempts

\* Mutated form: the attempt number is carried over unchanged.
SameAttempt(job) == job

NextAttempt(job) == [job EXCEPT !.attempt = @ + 1]

\* Mutated form: RPUSH, so that the retried job comes before all others.
PushRetryInFront(job, reply) ==
  /\ IF ~Applied(reply)
       THEN UNCHANGED <<main, deadLetter>>
       ELSE IF Exhausted(job)
         THEN /\ deadLetter' = [deadLetter EXCEPT ![job] = @ + 1]
              /\ UNCHANGED main
         ELSE /\ main' = <<NextAttempt(job)>> \o main
              /\ UNCHANGED deadLetter
  /\ UNCHANGED processing

(* Retry's second command: LPUSH on the dead-letter list when the attempts *)
(* are used up, else on the main list with the attempt number increased.   *)
PushRetry(job, reply) ==
  /\ IF ~Applied(reply)
       THEN UNCHANGED <<main, deadLetter>>
       ELSE IF Exhausted(job)
         THEN /\ deadLetter' = [deadLetter EXCEPT ![job] = @ + 1]
              /\ UNCHANGED main
         ELSE /\ main' = Append(main, NextAttempt(job))
              /\ UNCHANGED deadLetter
  /\ UNCHANGED processing
=============================================================================
