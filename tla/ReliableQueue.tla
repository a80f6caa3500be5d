--------------------------- MODULE ReliableQueue ----------------------------
(***************************************************************************)
(* What the queue promises of the payloads that are pushed to it, whatever *)
(* calls fail and whichever worker dies: they are handed out in the order  *)
(* in which they came, one copy to one worker; a copy that was handed out  *)
(* leaves its worker once, for good, for one more attempt behind all that  *)
(* wait, or, after the last attempt and not before, for the dead letters;  *)
(* and nothing comes from nowhere.  There is no processing list here: who  *)
(* removes a copy removes the one it was handed.                           *)
(***************************************************************************)
EXTENDS Integers, Sequences

CONSTANTS Documents, MaxAttempts, Malformed

Job == [document : Documents, attempt : 1 .. MaxAttempts]

Payload == Job \cup {Malformed}

VARIABLES waiting,   \* the payloads nobody was handed yet, oldest first
          held,      \* how many copies of each are out
          dead       \* how many copies of each job have used up their attempts

vars == <<waiting, held, dead>>

Init ==
  /\ waiting = <<>>
  /\ held = [payload \in Payload |-> 0]
  /\ dead = [job \in Job |-> 0]

Push(payload) ==
  /\ waiting' = Append(waiting, payload)
  /\ UNCHANGED <<held, dead>>

HandOut ==
  /\ waiting # <<>>
  /\ waiting' = Tail(waiting)
  /\ held' = [held EXCEPT ![Head(waiting)] = @ + 1]
  /\ UNCHANGED dead

Return(payload) ==
  /\ held[payload] > 0
  /\ held' = [held EXCEPT ![payload] = @ - 1]

(* Acknowledged or discarded; or gone with a worker that ended between the *)
(* two commands of a retry.                                                *)
Finish(payload) ==
  /\ Return(payload)
  /\ UNCHANGED <<waiting, dead>>

TryAgain(job) ==
  /\ job.attempt < MaxAttempts
  /\ Return(job)
  /\ waiting' = Append(waiting, [job EXCEPT !.attempt = @ + 1])
  /\ UNCHANGED dead

Bury(job) ==
  /\ job.attempt = MaxAttempts
  /\ Return(job)
  /\ dead' = [dead EXCEPT ![job] = @ + 1]
  /\ UNCHANGED waiting

Next ==
  \/ \E d \in Documents : Push([document |-> d, attempt |-> 1])
  \/ Push(Malformed)
  \/ HandOut
  \/ \E payload \in Payload : Finish(payload)
  \/ \E job \in Job : TryAgain(job) \/ Bury(job)

Spec == Init /\ [][Next]_vars
=============================================================================
